---- MODULE Spec2Model ----
(***************************************************************************)
(* Model of the ray tracer of tismajo/CC2018-PR2.                          *)
(*                                                                         *)
(*   Spec        render_scene (src/src/renderer.rs): one call in           *)
(*               single-threaded mode and one call in threaded mode on     *)
(*               equal inputs, each with its own output buffer.            *)
(*   SpecTrace   trace_ray (src/src/renderer.rs) as a machine with an      *)
(*               explicit call stack, over scenes given by what each ray   *)
(*               hits.                                                     *)
(*   SpecCamera  Camera (src/src/camera.rs): the constructor followed by   *)
(*               any sequence of calls of its nine methods and of the      *)
(*               zoom keys of handle_camera_input (src/src/main.rs).       *)
(*   SpecCube    Cube::intersect and get_face_material (src/src/cube.rs):  *)
(*               one call on a box and a ray.                              *)
(*   SpecLight   PointLight::illuminate (src/src/point_light.rs): one call.*)
(*   SpecTexture Texture::sample (src/src/texture.rs): one call.           *)
(*   SpecMaterial Material::new followed by with_* builder calls           *)
(*               (src/src/material.rs).                                    *)
(*   SpecScene   Scene::intersect (src/src/minecraft.rs): the scan of the  *)
(*               boxes and then of the meshes, one primitive per step.     *)
(*   SpecRefract the refraction test of trace_ray with Vec3::refract       *)
(*               (src/src/utils.rs): one call.                             *)
(*   SpecShade   the sun and point-light terms of trace_ray for one hit.   *)
(*   SpecMain    the loop of main (src/src/main.rs): input, automatic      *)
(*               quality, update of the sun and the render_scene call,     *)
(*               frame after frame.                                        *)
(*                                                                         *)
(* Real numbers (f32 in the source) are fixed-point integers scaled by     *)
(* Scale: 1.0 is Scale.                                                    *)
(***************************************************************************)
EXTENDS Integers, Sequences, FiniteSets, TLC

\* ------------------------------------------------------------------ bounds
MaxWidth == 2
MaxHeight == 4
MaxScale == 2
\* rays are told apart up to MaxRay + 1 classes
MaxRay == 2
\* the number of Camera method calls after construction
MaxCalls == 3
\* the largest width and height of a texture
MaxTexture == 3
\* the largest number of builder calls on one material
MaxBuilds == 2
\* the largest numbers of boxes and of meshes in a scene
MaxCubes == 2
MaxMeshes == 1
\* the number of frames of the main loop
MaxFrames == 5

\* 1.0 in fixed point
Scale == 10 * 10

Min(a, b) == IF a < b THEN a ELSE b
Max(a, b) == IF a > b THEN a ELSE b

\* utils.rs clamp(value, min, max)
clamp(value, lo, hi) == IF value < lo THEN lo ELSE IF value > hi THEN hi ELSE value

VARIABLES
    \* inputs of render_scene, equal for both calls
    width, height, render_scale,
    \* the downscaled pixel (sy * scaled_width + sx) whose primary ray panics
    \* inside trace_ray, or -1 when no ray of this scene panics
    bad,
    \* the single-threaded call: its buffer, its loop position, its control state
    bufS, posS, pcS,
    \* the indices at which each call has assigned buffer[idx], in order
    writtenS, writtenT,
    \* the threaded call: its buffer, the main thread's control state and loop
    \* index, and per worker its state, loop position and private list
    bufT, pcT, thread_id, wstate, wpos, local_pixels,
    \* the scene and ray geometry of a trace_ray call: the material kind each
    \* ray class hits (0: nothing), the dot product of ray direction and
    \* surface normal at a hit, and the lighting situation
    hit, dn, lighting,
    \* the call stack of trace_ray, the value of the last return, the number
    \* of steps taken and the number of calls that have queried the scene
    stack, ret, steps, queries,
    \* the Camera: its fields, the last method called and the number of calls
    position, target, distance, horizontal_angle, vertical_angle,
    fov, aspect,
    \* the last method called, the number of calls and, for each call, its
    \* name, its argument and the camera it was made on
    last_call, ncalls, calls,
    \* Cube::intersect: the box, the ray and the result of the call
    cube, cray, chit, cdone,
    \* PointLight::illuminate: the light, the point and the result of the call
    plight, ppoint, pillum,
    \* Texture::sample: the texture, the coordinates and the result of the call
    tex, uv, texel,
    \* Material builders: the material and the builder calls made on it
    mat, built,
    \* Scene::intersect: what each box and each mesh reports for the ray, the
    \* locals of the scan, the number of primitives scanned, and whether the
    \* function has returned
    cube_hits, mesh_hits, closest, closest_t, scanned, returned,
    \* the refraction test of trace_ray: the dot product of ray direction and
    \* normal with the material, and whether a direction was found and a ray cast
    incident, refraction,
    \* the main loop: the locals of main, the sun of the scene, the orbital
    \* distance of the camera, the position in the loop body, the number of
    \* frames, the last FPS check, and for the render_scene call its scale, the
    \* clone the workers hold and what the tracing has read
    quality_level, manual_quality_level, auto_quality, use_threading, main_day_time,
    fps_history, fps_check_timer, scene_sun, cam_distance, mpc, frame, check, scale_arg,
    snapshot, reads,
    \* the lighting of one hit: the situation and material trace_ray finds, and
    \* the sun's and the point lights' terms it computes
    shade_in, shade_out

renderVars == <<width, height, render_scale, bad, bufS, posS, pcS, writtenS, writtenT,
                bufT, pcT, thread_id, wstate, wpos, local_pixels>>

traceVars == <<hit, dn, lighting, stack, ret, steps, queries>>

cameraVars == <<position, target, distance, horizontal_angle, vertical_angle,
                fov, aspect, last_call, ncalls, calls>>

cubeVars == <<cube, cray, chit, cdone>>

lightVars == <<plight, ppoint, pillum>>

\* the state of the calls of the single functions
texVars == <<tex, uv, texel>>
matVars == <<mat, built>>
scanVars == <<cube_hits, mesh_hits, closest, closest_t, scanned, returned>>
refractVars == <<incident, refraction>>
mainVars ==
    <<quality_level, manual_quality_level, auto_quality, use_threading,
      main_day_time, fps_history, fps_check_timer, scene_sun, cam_distance, mpc,
      frame, check, scale_arg, snapshot, reads>>
shadeVars ==
    <<shade_in, shade_out>>
unitVars ==
    <<cubeVars, lightVars, texVars, matVars, scanVars, refractVars, mainVars,
      shadeVars>>

\* the state a call of one of them leaves alone
exceptCube ==
    <<renderVars, traceVars, cameraVars, lightVars, texVars, matVars, scanVars,
      refractVars, mainVars, shadeVars>>
exceptLight ==
    <<renderVars, traceVars, cameraVars, cubeVars, texVars, matVars, scanVars,
      refractVars, mainVars, shadeVars>>
exceptTexture ==
    <<renderVars, traceVars, cameraVars, cubeVars, lightVars, matVars,
      scanVars, refractVars, mainVars, shadeVars>>
exceptScan ==
    <<renderVars, traceVars, cameraVars, cubeVars, lightVars, texVars, matVars,
      refractVars, mainVars, shadeVars>>
exceptMaterial ==
    <<renderVars, traceVars, cameraVars, cubeVars, lightVars, texVars,
      scanVars, refractVars, mainVars, shadeVars>>
exceptRefract ==
    <<renderVars, traceVars, cameraVars, cubeVars, lightVars, texVars, matVars,
      scanVars, mainVars, shadeVars>>
exceptMain ==
    <<renderVars, traceVars, cameraVars, cubeVars, lightVars, texVars, matVars,
      scanVars, refractVars, shadeVars>>
exceptShade ==
    <<renderVars, traceVars, cameraVars, cubeVars, lightVars, texVars, matVars,
      scanVars, refractVars, mainVars>>

vars == <<renderVars, traceVars, cameraVars, unitVars>>

\* ------------------------------------------------------------ render_scene
num_threads == 4
Threads == 0 .. (num_threads - 1)

scaled_width == width \div render_scale
scaled_height == height \div render_scale

\* Content of the caller's buffer before the call, told apart from every
\* colour a call writes.
Unwritten == <<-1, -1, -1>>

\* Color::to_raylib, one component: (clamp(c, 0.0, 1.0) * 255.0) as u8
ToU8(c) == (clamp(c, 0, Scale) * 255) \div Scale
to_raylib(color) == <<ToU8(color[1]), ToU8(color[2]), ToU8(color[3])>>

\* trace_ray(camera.get_ray(u, v), scene, 0, day_time) for the fixed scene,
\* camera and day_time of the call: a function of the viewport coordinates
\* u = sx / scaled_width and v = sy / scaled_height alone.
PrimaryColor(sx, sy) ==
    LET u == (sx * Scale) \div scaled_width
        v == (sy * Scale) \div scaled_height
    IN  <<u, v, u + v>>

\* the downscaled pixel a loop position stands for
PixelX(p) == p % scaled_width
PixelY(p) == p \div scaled_width

\* The (idx, colour) pairs of the block of downscaled pixel (sx, sy), in the
\* order of the dy/dx loops, each guarded by x < width && y < height.
RECURSIVE BlockFrom(_, _, _, _)
BlockFrom(sx, sy, color, k) ==
    IF k >= render_scale * render_scale THEN <<>>
    ELSE LET dy == k \div render_scale
             dx == k % render_scale
             x == sx * render_scale + dx
             y == sy * render_scale + dy
             rest == BlockFrom(sx, sy, color, k + 1)
         IN  IF x < width /\ y < height
             THEN <<<<y * width + x, to_raylib(color)>>>> \o rest
             ELSE rest

\* the indices of a list of (idx, colour) pairs, in order
IndexList(pixels) == [k \in 1 .. Len(pixels) |-> pixels[k][1]]

\* buffer[idx] = color for every pair of a list, in order
RECURSIVE WriteAll(_, _)
WriteAll(buf, pixels) ==
    IF pixels = <<>> THEN buf
    ELSE WriteAll([buf EXCEPT ![pixels[1][1]] = pixels[1][2]], Tail(pixels))

\* mutant of FillBlockSingle: the block is filled at (sy, sx)
FillBlockTransposed(buf, sx, sy, color) == WriteAll(buf, BlockFrom(sy, sx, color, 0))

\* render_single_threaded, lines 48-57: the fill of one block into the buffer
FillBlockSingle(buf, sx, sy, color) == WriteAll(buf, BlockFrom(sx, sy, color, 0))

\* mutant of PushBlock: only the first pixel of the block is pushed
PushBlockFirstOnly(sx, sy, color) ==
    IF BlockFrom(sx, sy, color, 0) = <<>> THEN <<>>
    ELSE <<Head(BlockFrom(sx, sy, color, 0))>>

\* render_threaded, lines 103-112: the pairs one block pushes to local_pixels
PushBlock(sx, sy, color) == BlockFrom(sx, sy, color, 0)

\* mutant of rows_per_thread: the division rounds down
rows_per_threadFloor == scaled_height \div num_threads

\* render_threaded, line 81
rows_per_thread == (scaled_height + num_threads - 1) \div num_threads
\* mutant of start_row: a band starts on the last row of the band before it
start_rowOverlap(t) == Max(t * rows_per_thread - 1, 0)

\* render_threaded, lines 89-90
start_row(t) == t * rows_per_thread
end_row(t) == Min((t + 1) * rows_per_thread, scaled_height)
\* number of downscaled pixels the loops of worker t visit (start_row..end_row
\* is empty when start_row >= end_row)
BandPixels(t) == Max(end_row(t) - start_row(t), 0) * scaled_width

\* mutants of Joinable: the join does not wait for a running worker
JoinableOnceSpawned(t) == wstate[t] # "unspawned"
JoinableAlways(t) == TRUE

\* handle.join() blocks until the worker has terminated
Joinable(t) == wstate[t] \in {"finished", "panicked"}

InitRender ==
    /\ width \in 1 .. MaxWidth
    /\ height \in 1 .. MaxHeight
    /\ render_scale \in 1 .. MaxScale
    /\ bad \in -1 .. ((width \div render_scale) * (height \div render_scale) - 1)
    /\ bufS = [i \in 0 .. (width * height - 1) |-> Unwritten]
    /\ writtenS = <<>>
    /\ writtenT = <<>>
    /\ posS = 0
    /\ pcS = "run"
    /\ bufT = [i \in 0 .. (width * height - 1) |-> Unwritten]
    /\ pcT = "spawn"
    /\ thread_id = 0
    /\ wstate = [t \in Threads |-> "unspawned"]
    /\ wpos = [t \in Threads |-> 0]
    /\ local_pixels = [t \in Threads |-> <<>>]

threadedVars == <<bufT, writtenT, pcT, thread_id, wstate, wpos, local_pixels>>
singleVars == <<bufS, writtenS, posS, pcS>>
inputVars == <<width, height, render_scale, bad, traceVars, cameraVars, unitVars>>

\* render_single_threaded: one iteration of the sy/sx loops
SingleStep ==
    /\ pcS = "run"
    /\ posS < scaled_width * scaled_height
    /\ posS # bad
    /\ bufS' = FillBlockSingle(bufS, PixelX(posS), PixelY(posS),
                               PrimaryColor(PixelX(posS), PixelY(posS)))
    /\ writtenS' = writtenS \o IndexList(BlockFrom(PixelX(posS), PixelY(posS),
                             PrimaryColor(PixelX(posS), PixelY(posS)), 0))
    /\ posS' = posS + 1
    /\ UNCHANGED <<pcS, inputVars, threadedVars>>

\* render_single_threaded: trace_ray panics, the call unwinds
SinglePanic ==
    /\ pcS = "run"
    /\ posS < scaled_width * scaled_height
    /\ posS = bad
    /\ pcS' = "panicked"
    /\ UNCHANGED <<bufS, writtenS, posS, inputVars, threadedVars>>

\* render_single_threaded: the loops are over, the call returns
SingleReturn ==
    /\ pcS = "run"
    /\ posS = scaled_width * scaled_height
    /\ pcS' = "returned"
    /\ UNCHANGED <<bufS, writtenS, posS, inputVars, threadedVars>>

\* render_threaded, lines 85-120: one iteration of the spawn loop (the
\* threaded call is made once the single-threaded call has ended)
Spawn ==
    /\ pcS # "run"
    /\ pcT = "spawn"
    /\ thread_id < num_threads
    /\ wstate' = [wstate EXCEPT ![thread_id] = "running"]
    /\ thread_id' = thread_id + 1
    /\ UNCHANGED <<pcT, bufT, writtenT, wpos, local_pixels, inputVars, singleVars>>

\* render_threaded: the spawn loop is over, the join loop starts
SpawnDone ==
    /\ pcT = "spawn"
    /\ thread_id = num_threads
    /\ pcT' = "join"
    /\ thread_id' = 0
    /\ UNCHANGED <<bufT, writtenT, wstate, wpos, local_pixels, inputVars, singleVars>>

\* worker closure, lines 95-114: one iteration of the sy/sx loops
WorkerStep(t) ==
    /\ wstate[t] = "running"
    /\ wpos[t] < BandPixels(t)
    /\ LET p == start_row(t) * scaled_width + wpos[t]
       IN  /\ p # bad
           /\ local_pixels' = [local_pixels EXCEPT ![t] =
                  @ \o PushBlock(PixelX(p), PixelY(p),
                                 PrimaryColor(PixelX(p), PixelY(p)))]
    /\ wpos' = [wpos EXCEPT ![t] = @ + 1]
    /\ UNCHANGED <<bufT, writtenT, pcT, thread_id, wstate, inputVars, singleVars>>

\* worker closure: trace_ray panics, the thread unwinds and its list is dropped
WorkerPanic(t) ==
    /\ wstate[t] = "running"
    /\ wpos[t] < BandPixels(t)
    /\ start_row(t) * scaled_width + wpos[t] = bad
    /\ wstate' = [wstate EXCEPT ![t] = "panicked"]
    /\ local_pixels' = [local_pixels EXCEPT ![t] = <<>>]
    /\ UNCHANGED <<bufT, writtenT, pcT, thread_id, wpos, inputVars, singleVars>>

\* worker closure, line 116: the loops are over, the thread returns its list
WorkerReturn(t) ==
    /\ wstate[t] = "running"
    /\ wpos[t] = BandPixels(t)
    /\ wstate' = [wstate EXCEPT ![t] = "finished"]
    /\ UNCHANGED <<bufT, writtenT, pcT, thread_id, wpos, local_pixels, inputVars, singleVars>>

\* render_threaded, lines 122-128: join returned Ok(pixels), commit them
JoinOk ==
    /\ pcT = "join"
    /\ thread_id < num_threads
    /\ Joinable(thread_id)
    /\ wstate[thread_id] # "panicked"
    /\ bufT' = WriteAll(bufT, local_pixels[thread_id])
    /\ writtenT' = writtenT \o IndexList(local_pixels[thread_id])
    /\ local_pixels' = [local_pixels EXCEPT ![thread_id] = <<>>]
    /\ thread_id' = thread_id + 1
    /\ UNCHANGED <<pcT, wstate, wpos, inputVars, singleVars>>

\* render_threaded, lines 122-129: join returned Err, the if-let skips it
JoinErr ==
    /\ pcT = "join"
    /\ thread_id < num_threads
    /\ Joinable(thread_id)
    /\ wstate[thread_id] = "panicked"
    /\ thread_id' = thread_id + 1
    /\ UNCHANGED <<pcT, bufT, writtenT, wstate, wpos, local_pixels, inputVars, singleVars>>

\* render_threaded, line 130: the join loop is over, the call returns
ThreadedReturn ==
    /\ pcT = "join"
    /\ thread_id = num_threads
    /\ pcT' = "returned"
    /\ UNCHANGED <<bufT, writtenT, thread_id, wstate, wpos, local_pixels, inputVars, singleVars>>

\* ---------------------------------------------------------------- trace_ray
MAX_DEPTH == 8

Rays == 0 .. MaxRay

\* fixed-point product and quotient
Mul(a, b) == (a * b) \div Scale
Div(a, b) == (a * Scale) \div b

\* Color: Add, Mul<f32>, Mul<Color>, black
Black == <<0, 0, 0>>
CAdd(a, b) == <<a[1] + b[1], a[2] + b[2], a[3] + b[3]>>
CScale(a, k) == <<Mul(a[1], k), Mul(a[2], k), Mul(a[3], k)>>
CMul(a, b) == <<Mul(a[1], b[1]), Mul(a[2], b[2]), Mul(a[3], b[3])>>

\* mutant of Color_clamp: the components are returned as they are
Color_noclamp(c) == c

\* Color::clamp
Color_clamp(c) == <<clamp(c[1], 0, Scale), clamp(c[2], 0, Scale), clamp(c[3], 0, Scale)>>

\* x^n for an integer n >= 0, by squaring
RECURSIVE PowInt(_, _)
PowInt(x, n) ==
    IF n = 0 THEN Scale
    ELSE LET h == PowInt(x, n \div 2)
         IN  IF n % 2 = 1 THEN Mul(Mul(h, h), x) ELSE Mul(h, h)

\* the tenth root of a in [0, 1], rounded down
Root10(a) ==
    CHOOSE q \in 0 .. Scale :
        /\ PowInt(q, 10) <= a
        /\ q = Scale \/ PowInt(q + 1, 10) > a

\* f32::powf(x, e) for x in [0, 1] and an exponent e given to one decimal
powf(x, e) ==
    LET tenths == (e * 10) \div Scale
    IN  IF tenths % 10 = 0 THEN PowInt(x, tenths \div 10)
        ELSE Root10(PowInt(x, tenths))

\* Option: None is the empty sequence and Some(x) the sequence of x alone
None == <<>>
Some(x) == <<x>>
IsSome(o) == o # None
Unwrap(o) == o[1]

\* Material::new and the with_* builders
Material_new(albedo) ==
    [albedo |-> albedo, texture |-> None, reflectivity |-> 0, specular |-> 0,
     shininess |-> 32 * Scale, emissive |-> Black, refractive_index |-> Scale,
     transparency |-> 0]
with_texture(m, texture) == [m EXCEPT !.texture = Some(texture)]
with_reflectivity(m, reflectivity) == [m EXCEPT !.reflectivity = reflectivity]
\* the builder also puts the reflectivity back to its default
with_specular_resetting(m, specular, shininess) ==
    [m EXCEPT !.specular = specular, !.shininess = shininess, !.reflectivity = 0]
with_specular(m, specular, shininess) ==
    [m EXCEPT !.specular = specular, !.shininess = shininess]
with_emissive(m, emissive) == [m EXCEPT !.emissive = emissive]
with_transparency(m, transparency, refractive_index) ==
    [m EXCEPT !.transparency = transparency, !.refractive_index = refractive_index]

\* The material kinds of the scenes: 1 a matte block, 2 a mirror, 3 the
\* window glass of the house, 4 a lamp whose emissive colour exceeds 1.0 in
\* one component, 5 a fully transparent surface of refractive index 1.5 and
\* reflectivity 0, 6 a half transparent surface of refractive index 0.5, on
\* which Vec3::refract finds no direction unless the ray is head-on.
Matte == 1
Mirror == 2
Glass == 3
Lamp == 4
Crystal == 5
Bubble == 6
Kinds == {Matte, Mirror, Glass, Lamp, Crystal, Bubble}
MaterialOf(k) ==
    CASE k = Matte  -> with_specular(Material_new(<<60, 60, 60>>), 30, 32 * Scale)
      [] k = Mirror -> with_reflectivity(Material_new(<<100, 100, 100>>), Scale)
      [] k = Glass  -> with_specular(
                          with_reflectivity(
                             with_transparency(Material_new(<<80, 90, 100>>), 70, 150),
                             10),
                          80, 64 * Scale)
      [] k = Lamp   -> with_emissive(Material_new(<<100, 90, 10>>), <<150, 80, 20>>)
      [] k = Crystal -> with_transparency(Material_new(<<20, 40, 80>>), Scale, 150)
      [] k = Bubble -> with_transparency(Material_new(<<90, 90, 90>>), Scale \div 2,
                                         Scale \div 2)

\* Scene::intersect(ray).is_some() and the material of the nearest hit
NoHit == 0
Intersects(ray) == hit[ray] # NoHit
HitMaterial(ray) == MaterialOf(hit[ray])

\* the ray classes of the reflected and of the refracted ray of a hit
ReflectRay(ray) == (ray + 1) % (MaxRay + 1)
RefractRay(ray) == (ray + 2) % (MaxRay + 1)

\* the cutoff also takes the points at the radius
illuminate_to_radius(light) ==
    IF light.distance >= light.radius THEN Black
    ELSE LET attenuation == Div(Scale, Scale + Mul(Mul(light.distance, light.distance), 50))
         IN  CScale(light.color, Mul(light.intensity, attenuation))

\* PointLight::illuminate: the attenuated colour at a given distance
illuminate(light) ==
    IF light.distance > light.radius THEN Black
    ELSE LET attenuation == Div(Scale, Scale + Mul(Mul(light.distance, light.distance), 50))
         IN  CScale(light.color, Mul(light.intensity, attenuation))

\* Lighting situations of a hit. t of a shadow ray's nearest hit is NoShadow
\* when the shadow ray hits nothing.
NoShadow == -1
sun_color == <<100, 95, 90>>
LightingCases ==
    << \* noon, sun not occluded, no point light; the ray looks at the sun
       [day_time |-> 0, sun_intensity |-> 120, ndotl |-> 100, nh |-> 90,
        sun_shadow_t |-> NoShadow, point_lights |-> <<>>,
        sky_day |-> <<40, 60, 95>>, sky_night |-> <<2, 2, 10>>, cos_sun |-> 98],
       \* night, sun occluded, one torch in reach and not occluded; the ray
       \* looks at the moon
       [day_time |-> 90, sun_intensity |-> 30, ndotl |-> 50, nh |-> 100,
        sun_shadow_t |-> 250,
        point_lights |-> <<[color |-> <<100, 60, 20>>, intensity |-> 200, radius |-> 500,
                            distance |-> 100, ndotl |-> 80, nh |-> 100,
                            shadow_t |-> 300]>>,
        sky_day |-> <<80, 90, 100>>, sky_night |-> <<110, 110, 120>>, cos_sun |-> -100],
       \* morning, sun grazing, one torch out of reach and one occluded
       [day_time |-> 30, sun_intensity |-> 100, ndotl |-> -20, nh |-> 40,
        sun_shadow_t |-> NoShadow,
        point_lights |-> <<[color |-> <<100, 60, 20>>, intensity |-> 200, radius |-> 500,
                            distance |-> 600, ndotl |-> 80, nh |-> 50,
                            shadow_t |-> NoShadow],
                           [color |-> <<100, 100, 100>>, intensity |-> 150, radius |-> 800,
                            distance |-> 400, ndotl |-> 70, nh |-> 50,
                            shadow_t |-> 120]>>,
        sky_day |-> <<80, 90, 100>>, sky_night |-> <<10, 10, 20>>, cos_sun |-> 90] >>
L == LightingCases[lighting]
day_time == L.day_time

\* Skybox::sample: the blend of the day and night textures, the sun disk and
\* glow by day, the moon disk and glow by night, clamped
SkySample ==
    LET base == CAdd(CScale(L.sky_day, Scale - day_time), CScale(L.sky_night, day_time))
        cos_angle_to_sun == Min(Max(L.cos_sun, -Scale), Scale)
        cos_angle_to_moon == Min(Max(-L.cos_sun, -Scale), Scale)
        sun_radius_cos == 96
        sun_glow_cos == 86
        moon_radius_cos == 99
        moon_glow_cos == 97
        sun ==
            IF day_time < 50 /\ cos_angle_to_sun >= sun_radius_cos
            THEN LET t == Div(cos_angle_to_sun - sun_radius_cos, Scale - sun_radius_cos)
                     brightness == Mul(powf(t, 30), Scale - day_time * 2)
                 IN  CScale(<<100, 100, 95>>, 5 * brightness)
            ELSE IF day_time < 50 /\ cos_angle_to_sun >= sun_glow_cos
            THEN LET t == Div(cos_angle_to_sun - sun_glow_cos, sun_radius_cos - sun_glow_cos)
                     brightness == Mul(powf(t, 150), Scale - day_time * 2)
                 IN  CScale(<<100, 90, 70>>, 2 * brightness)
            ELSE Black
        moon ==
            IF day_time > 50 /\ cos_angle_to_moon >= moon_radius_cos
            THEN LET t == Div(cos_angle_to_moon - moon_radius_cos, Scale - moon_radius_cos)
                     brightness == Mul(powf(t, 50), day_time - 50) * 2
                 IN  CScale(<<90, 90, 100>>, brightness)
            ELSE IF day_time > 50 /\ cos_angle_to_moon >= moon_glow_cos
            THEN LET t == Div(cos_angle_to_moon - moon_glow_cos, moon_radius_cos - moon_glow_cos)
                     brightness == Mul(powf(t, 200), day_time - 50) * 2
                 IN  CScale(<<70, 70, 90>>, Mul(30, brightness))
            ELSE Black
    IN  Color_clamp(CAdd(CAdd(base, sun), moon))

\* any hit of the shadow ray occludes the point light
point_in_shadow_at_any_distance(point_light) == point_light.shadow_t # NoShadow

\* trace_ray, lines 203-209: the shadow test of a point light
point_in_shadow(point_light) ==
    IF point_light.shadow_t # NoShadow
    THEN point_light.shadow_t < point_light.distance
    ELSE FALSE

\* trace_ray, lines 188-222: the diffuse and specular sums over the point
\* lights, as the pair <<point_light_contribution, point_light_specular>>
RECURSIVE PointLightSums(_, _, _)
PointLightSums(m, lights, acc) ==
    IF lights = <<>> THEN acc
    ELSE LET point_light == Head(lights)
             light_color == illuminate(point_light)
             point_diffuse_strength == Max(point_light.ndotl, 0)
             spec_strength == powf(Max(point_light.nh, 0), m.shininess)
             next ==
                 IF light_color[1] <= 0 /\ light_color[2] <= 0 /\ light_color[3] <= 0
                 THEN acc
                 ELSE IF ~point_in_shadow(point_light) /\ point_diffuse_strength > 0
                 THEN << CAdd(acc[1], CScale(light_color, point_diffuse_strength)),
                         IF m.specular > 0
                         THEN CAdd(acc[2], CScale(light_color, Mul(m.specular, spec_strength)))
                         ELSE acc[2] >>
                 ELSE acc
         IN  PointLightSums(m, Tail(lights), next)

\* trace_ray, lines 169-170: the shadow test of the sun
in_shadow(l) == l.sun_shadow_t # NoShadow

\* trace_ray, lines 161-185: the pair <<diffuse, specular>> of the sun
SunTerms(l, m) ==
    LET celestial_intensity == Mul(l.sun_intensity, Scale - Mul(l.day_time, 95))
        diffuse_strength == Max(l.ndotl, 0)
        diffuse ==
            IF in_shadow(l) THEN Black
            ELSE CScale(sun_color, Mul(diffuse_strength, celestial_intensity))
        specular ==
            IF ~in_shadow(l) /\ m.specular > 0 /\ diffuse_strength > 0
            THEN CScale(sun_color,
                        Mul(Mul(m.specular, powf(Max(l.nh, 0), m.shininess)),
                            celestial_intensity))
            ELSE Black
    IN  <<diffuse, specular>>

\* trace_ray, lines 143-224: the colour of a hit before reflection and refraction
LocalColor(m) ==
    LET surface_color == m.albedo
        day_ambient == <<45, 45, 52>>
        night_ambient == <<5, 5, 8>>
        ambient == CAdd(CScale(day_ambient, Scale - day_time), CScale(night_ambient, day_time))
        diffuse == SunTerms(L, m)[1]
        specular == SunTerms(L, m)[2]
        sums == PointLightSums(m, L.point_lights, <<Black, Black>>)
    IN  CAdd(CAdd(CMul(CAdd(CAdd(ambient, diffuse), sums[1]), surface_color), specular),
             sums[2])

\* trace_ray, lines 227-235: Schlick's approximation
Fresnel(m) ==
    LET cos_theta == Min(Max(IF dn < 0 THEN -dn ELSE dn, 0), Scale)
        r0 == IF m.refractive_index > Scale
              THEN PowInt(Div(Scale - m.refractive_index, Scale + m.refractive_index), 2)
              ELSE 4
    IN  r0 + Mul(Scale - r0, PowInt(Scale - cos_theta, 5))

\* Vec3::refract returns Some, for the dot product of direction and normal:
\* sin_t2 <= 1.0
refract_is_some(dot, eta) ==
    LET cos_i == -Min(Max(dot, -Scale), Scale)
        sin_t2 == Mul(Mul(eta, eta), Scale - Mul(cos_i, cos_i))
    IN  ~(sin_t2 > Scale)

\* the refractive index itself is taken as eta
eta_of_index(material) == material.refractive_index

\* trace_ray, line 255: eta = 1.0 / material.refractive_index
eta_of(material) == Div(Scale, material.refractive_index)

\* ray.direction.refract(&normal, eta) is Some at the hit of the traced ray
RefractExists(eta) == refract_is_some(dn, eta)

\* mutant of AtDepthBound: the bound is tested one level too late
AtDepthBoundLate(depth) == depth > MAX_DEPTH

\* trace_ray, line 133
AtDepthBound(depth) == depth >= MAX_DEPTH

\* trace_ray, lines 169-170 and 202-203: the shadow rays cast for a hit, one
\* toward the sun and one toward each point light that illuminates the point
ShadowRays ==
    1 + Cardinality({i \in 1 .. Len(L.point_lights) :
                        LET light_color == illuminate(L.point_lights[i])
                        IN  ~(light_color[1] <= 0 /\ light_color[2] <= 0
                              /\ light_color[3] <= 0)})

\* A call of trace_ray: its arguments, its position, its local `color`, and
\* `reflected`, the weight that `color` gives to reflect_color; the numbers
\* of shadow rays it has cast, of point lights it has evaluated, and of
\* recursive calls it has made on a reflected and on a refracted ray.
Frame(ray, depth) ==
    [ray |-> ray, depth |-> depth, pc |-> "entry", color |-> Black, reflected |-> 0,
     shadow_rays |-> 0, lights |-> 0, reflect_calls |-> 0, refract_calls |-> 0]
Top == stack[Len(stack)]
Pop == SubSeq(stack, 1, Len(stack) - 1)
SetTop(f) == [stack EXCEPT ![Len(stack)] = f]
NoReturn ==
    [color |-> Black, via |-> "none", ray |-> 0, depth |-> 0, reflected |-> 0,
     shadow_rays |-> 0, lights |-> 0, reflect_calls |-> 0, refract_calls |-> 0]
Return(color, via) ==
    /\ ret' = [color |-> color, via |-> via, ray |-> Top.ray, depth |-> Top.depth,
               reflected |-> Top.reflected,
               shadow_rays |-> Top.shadow_rays, lights |-> Top.lights,
               reflect_calls |-> Top.reflect_calls,
               refract_calls |-> Top.refract_calls]
    /\ stack' = Pop

sceneVars == <<hit, dn, lighting>>

\* a primary call trace_ray(ray, scene, 0, day_time) on ray class 0
InitTrace ==
    /\ hit \in [Rays -> {NoHit} \cup Kinds]
    \* the surface of refractive index below 1 is met by the primary ray only
    /\ \A r \in Rays \ {0} : hit[r] # Bubble
    /\ dn \in {-Scale, -(Scale \div 2), 0}
    /\ lighting \in 1 .. Len(LightingCases)
    /\ stack = <<Frame(0, 0)>>
    /\ ret = NoReturn
    /\ steps = 0
    /\ queries = 0

\* only a colour above 1.0 in every component counts as emissive
IsEmissive_above_one(material) ==
    material.emissive[1] > Scale /\ material.emissive[2] > Scale /\ material.emissive[3] > Scale

\* lines 145-146
IsEmissive(material) ==
    material.emissive[1] > 0 \/ material.emissive[2] > 0 \/ material.emissive[3] > 0

\* the conditions under which each step of trace_ray is taken
AtEntry == stack # <<>> /\ Top.pc = "entry"
DepthBoundGuard == AtEntry /\ AtDepthBound(Top.depth)
MissGuard == AtEntry /\ ~AtDepthBound(Top.depth) /\ ~Intersects(Top.ray)
EmissiveGuard ==
    AtEntry /\ ~AtDepthBound(Top.depth) /\ Intersects(Top.ray)
            /\ IsEmissive(HitMaterial(Top.ray))
ShadeGuard ==
    AtEntry /\ ~AtDepthBound(Top.depth) /\ Intersects(Top.ray)
            /\ ~IsEmissive(HitMaterial(Top.ray))
\* a transparent material of reflectivity 0 is not reflected
WantsReflection_reflective_only(material) == material.reflectivity > 0

\* line 238
WantsReflection(material) == material.reflectivity > 0 \/ material.transparency > 0

\* lines 254-256
WantsRefraction(material) ==
    /\ material.transparency > 0
    /\ RefractExists(eta_of(material))
ReflectCallGuard ==
    stack # <<>> /\ Top.pc = "reflect" /\ WantsReflection(HitMaterial(Top.ray))
ReflectSkipGuard ==
    stack # <<>> /\ Top.pc = "reflect" /\ ~WantsReflection(HitMaterial(Top.ray))
ReflectBlendGuard == stack # <<>> /\ Top.pc = "reflected"
RefractCallGuard ==
    stack # <<>> /\ Top.pc = "refract" /\ WantsRefraction(HitMaterial(Top.ray))
RefractSkipGuard ==
    stack # <<>> /\ Top.pc = "refract" /\ ~WantsRefraction(HitMaterial(Top.ray))
RefractBlendGuard == stack # <<>> /\ Top.pc = "refracted"
ReturnGuard == stack # <<>> /\ Top.pc = "done"

\* lines 133-135
TraceDepthBound ==
    /\ DepthBoundGuard
    /\ Return(Black, "depth")
    /\ steps' = steps + 1
    /\ UNCHANGED <<queries, sceneVars, renderVars, cameraVars, unitVars>>

\* lines 137, 267-271: the ray hits nothing, the sky is sampled
TraceMiss ==
    /\ MissGuard
    /\ Return(SkySample, "sky")
    /\ steps' = steps + 1
    /\ queries' = queries + 1
    /\ UNCHANGED <<sceneVars, renderVars, cameraVars, unitVars>>

\* lines 137-148: the hit material is emissive
TraceEmissive ==
    /\ EmissiveGuard
    /\ Return(HitMaterial(Top.ray).emissive, "emissive")
    /\ steps' = steps + 1
    /\ queries' = queries + 1
    /\ UNCHANGED <<sceneVars, renderVars, cameraVars, unitVars>>

\* lines 137-235: ambient, sun and point lights
TraceShade ==
    /\ ShadeGuard
    /\ stack' = SetTop([Top EXCEPT !.pc = "reflect",
                                   !.color = LocalColor(HitMaterial(Top.ray)),
                                   !.shadow_rays = ShadowRays,
                                   !.lights = Len(L.point_lights)])
    /\ steps' = steps + 1
    /\ queries' = queries + 1
    /\ UNCHANGED <<ret, sceneVars, renderVars, cameraVars, unitVars>>

\* lines 238-241: the recursive call on the reflected ray
TraceReflectCall ==
    /\ ReflectCallGuard
    /\ stack' = Append(SetTop([Top EXCEPT !.pc = "reflected",
                                          !.reflect_calls = Top.reflect_calls + 1]),
                       Frame(ReflectRay(Top.ray), Top.depth + 1))
    /\ steps' = steps + 1
    /\ UNCHANGED <<ret, queries, sceneVars, renderVars, cameraVars, unitVars>>

\* line 238: neither reflective nor transparent
TraceReflectSkip ==
    /\ ReflectSkipGuard
    /\ stack' = SetTop([Top EXCEPT !.pc = "refract"])
    /\ steps' = steps + 1
    /\ UNCHANGED <<ret, queries, sceneVars, renderVars, cameraVars, unitVars>>

\* lines 243-250: the blend with the colour the reflected ray returned
TraceReflectBlend ==
    /\ ReflectBlendGuard
    /\ LET material == HitMaterial(Top.ray)
           reflect_color == ret.color
           effective_reflectivity ==
               IF material.transparency > 0
               THEN Max(Fresnel(material), material.reflectivity)
               ELSE material.reflectivity
       IN  stack' = SetTop([Top EXCEPT
               !.pc = "refract",
               !.color = CAdd(CScale(Top.color, Scale - effective_reflectivity),
                              CScale(reflect_color, effective_reflectivity)),
               !.reflected = effective_reflectivity])
    /\ steps' = steps + 1
    /\ UNCHANGED <<ret, queries, sceneVars, renderVars, cameraVars, unitVars>>

\* lines 254-258: the recursive call on the refracted ray
TraceRefractCall ==
    /\ RefractCallGuard
    /\ stack' = Append(SetTop([Top EXCEPT !.pc = "refracted",
                                          !.refract_calls = Top.refract_calls + 1]),
                       Frame(RefractRay(Top.ray), Top.depth + 1))
    /\ steps' = steps + 1
    /\ UNCHANGED <<ret, queries, sceneVars, renderVars, cameraVars, unitVars>>

\* lines 254-256: opaque, or refract returned None
TraceRefractSkip ==
    /\ RefractSkipGuard
    /\ stack' = SetTop([Top EXCEPT !.pc = "done"])
    /\ steps' = steps + 1
    /\ UNCHANGED <<ret, queries, sceneVars, renderVars, cameraVars, unitVars>>

\* lines 260-262: the blend with the colour the refracted ray returned
TraceRefractBlend ==
    /\ RefractBlendGuard
    /\ LET material == HitMaterial(Top.ray)
           refract_color == ret.color
           refract_amount == Mul(material.transparency, Scale - Fresnel(material))
       IN  stack' = SetTop([Top EXCEPT
               !.pc = "done",
               !.color = CAdd(CScale(Top.color, Scale - refract_amount),
                              CScale(refract_color, refract_amount)),
               !.reflected = Mul(Top.reflected, Scale - refract_amount)])
    /\ steps' = steps + 1
    /\ UNCHANGED <<ret, queries, sceneVars, renderVars, cameraVars, unitVars>>

\* line 266
TraceReturn ==
    /\ ReturnGuard
    /\ Return(Color_clamp(Top.color), "hit")
    /\ steps' = steps + 1
    /\ UNCHANGED <<queries, sceneVars, renderVars, cameraVars, unitVars>>

\* ------------------------------------------------------------------ camera
\* camera.rs: lengths are in hundredths of a unit and angles in hundredths of
\* a radian, as every f32 of the model.

\* Vec3: Add, Sub, Mul<f32>, cross, length, normalize (utils.rs)
VAdd(a, b) == <<a[1] + b[1], a[2] + b[2], a[3] + b[3]>>
VSub(a, b) == <<a[1] - b[1], a[2] - b[2], a[3] - b[3]>>
VScale(a, k) == <<Mul(a[1], k), Mul(a[2], k), Mul(a[3], k)>>
VNeg(a) == <<-a[1], -a[2], -a[3]>>
cross(a, b) ==
    <<Mul(a[2], b[3]) - Mul(a[3], b[2]),
      Mul(a[3], b[1]) - Mul(a[1], b[3]),
      Mul(a[1], b[2]) - Mul(a[2], b[1])>>

\* f32::sqrt on integers: the largest r with r * r <= n
RECURSIVE SqrtBetween(_, _, _)
SqrtBetween(n, lo, hi) ==
    IF lo >= hi THEN lo
    ELSE LET mid == (lo + hi + 1) \div 2
         IN  IF mid * mid <= n THEN SqrtBetween(n, mid, hi)
                               ELSE SqrtBetween(n, lo, mid - 1)

Abs(x) == IF x < 0 THEN -x ELSE x
length(a) ==
    SqrtBetween(a[1] * a[1] + a[2] * a[2] + a[3] * a[3], 0,
                Abs(a[1]) + Abs(a[2]) + Abs(a[3]))
normalize(a) ==
    LET len == length(a)
    IN  IF len > 0 THEN <<Div(a[1], len), Div(a[2], len), Div(a[3], len)>> ELSE a

\* only the upper bound is applied
f32_clamp_upper(value, lo, hi) == IF value > hi THEN hi ELSE value

\* f32::clamp
f32_clamp(value, lo, hi) == IF value < lo THEN lo ELSE IF value > hi THEN hi ELSE value

\* f32::to_radians, cos, sin, asin, atan2
Pi == (355 * Scale) \div 113
to_radians(degrees) == (degrees * Pi) \div 180
\* the series 1 - a^2/2 + a^4/24 - a^6/720 on [0, Pi/2], computed to four
\* decimals and rounded to two
CosQuadrant(a) ==
    LET fine == Scale * Scale
        a1 == a * Scale
        a2 == (a1 * a1) \div fine
        a4 == (a2 * a2) \div fine
        a6 == (a4 * a2) \div fine
        c == fine - (a2 \div 2) + (a4 \div 24) - (a6 \div 720)
    IN  (c + Scale \div 2) \div Scale
Cos(x) ==
    LET r == x % (2 * Pi)
        half == IF r > Pi THEN 2 * Pi - r ELSE r
    IN  IF half > Pi \div 2 THEN -CosQuadrant(Pi - half) ELSE CosQuadrant(half)
Sin(x) == Cos(x - Pi \div 2)
\* the angle of [-Pi/2, Pi/2] whose sine is nearest to y, the one farthest
\* from 0 where several are
Asin(y) ==
    LET Quarter == -(Pi \div 2) .. (Pi \div 2)
        err == [a \in Quarter |-> Abs(Sin(a) - y)]
    IN  CHOOSE a \in Quarter :
            \A b \in Quarter :
                err[a] < err[b] \/ (err[a] = err[b] /\ Abs(a) >= Abs(b))
Atan2(z, x) ==
    LET r == SqrtBetween(z * z + x * x, 0, Abs(z) + Abs(x))
        s == IF r > 0 THEN Asin(Div(z, r)) ELSE 0
    IN  IF x >= 0 THEN s ELSE IF z >= 0 THEN Pi - s ELSE -Pi - s

\* the inputs of the calls: degrees, units of distance, units of movement
AngleDeltas == {-40, 0, 40}
ZoomDeltas == {-20 * Scale, 0, 20 * Scale}
Amounts == {2 * Scale}

\* the arguments of Camera::new: those of main.rs and a camera off the axes
Placements ==
    {<< <<0, 5 * Scale, 15 * Scale>>, <<0, 0, 0>> >>,
     << <<3 * Scale, 2 * Scale, -4 * Scale>>, <<Scale, 0, 0>> >>}

\* main.rs, lines 21-22 and 38-39: the window and the field of view
WIDTH == 800
HEIGHT == 600
FovDegrees == 70

\* lines 17-33
Camera_new ==
    \E placement \in Placements :
        LET direction == normalize(VSub(placement[1], placement[2]))
        IN  /\ position = placement[1]
            /\ target = placement[2]
            /\ distance = length(VSub(placement[1], placement[2]))
            /\ horizontal_angle = Atan2(direction[3], direction[1])
            /\ vertical_angle = Asin(direction[2])
            /\ fov = FovDegrees
            /\ aspect = Div(WIDTH, HEIGHT)
            /\ last_call = "new"
            /\ ncalls = 0
            /\ calls = <<>>

\* lines 36-44
get_forward == normalize(VSub(target, position))
get_right == normalize(cross(get_forward, <<0, Scale, 0>>))

\* lines 111-113: the offset of the camera from its target
orbital_offset(d, h, v) ==
    <<Mul(Mul(d, Cos(v)), Cos(h)), Mul(d, Sin(v)), Mul(Mul(d, Cos(v)), Sin(h))>>

\* the position update without the target
update_position_at_origin(t, d, h, v) == orbital_offset(d, h, v)

\* lines 110-116: the position the method stores
update_position_and_target(t, d, h, v) == VAdd(t, orbital_offset(d, h, v))

\* the position is the target plus the offset the orbital fields give
InOrbit ==
    position = VAdd(target, orbital_offset(distance, horizontal_angle, vertical_angle))

Called(name, arg) ==
    /\ ncalls < MaxCalls
    /\ ncalls' = ncalls + 1
    /\ last_call' = name
    /\ calls' = Append(calls, [call |-> name, arg |-> arg, position |-> position,
                                target |-> target, in_orbit |-> InOrbit])
    /\ UNCHANGED <<fov, aspect>>

\* lines 54-57
rotate_around_target(angle_delta) ==
    /\ Called("rotate_around_target", angle_delta)
    /\ horizontal_angle' = horizontal_angle + to_radians(angle_delta)
    /\ position' = update_position_and_target(target, distance, horizontal_angle',
                                              vertical_angle)
    /\ UNCHANGED <<target, distance, vertical_angle, renderVars, traceVars, unitVars>>

\* lines 59-63
rotate_vertical(angle_delta) ==
    /\ Called("rotate_vertical", angle_delta)
    /\ vertical_angle' = f32_clamp(vertical_angle + to_radians(angle_delta),
                                   -((3 * Scale) \div 2), (3 * Scale) \div 2)
    /\ position' = update_position_and_target(target, distance, horizontal_angle,
                                              vertical_angle')
    /\ UNCHANGED <<target, distance, horizontal_angle, renderVars, traceVars, unitVars>>

\* lines 66-70
zoom(delta) ==
    /\ Called("zoom", delta)
    /\ distance' = Min(Max(distance - delta, Scale), 50 * Scale)
    /\ position' = update_position_and_target(target, distance', horizontal_angle,
                                              vertical_angle)
    /\ UNCHANGED <<target, horizontal_angle, vertical_angle, renderVars, traceVars, unitVars>>

\* main.rs, handle_camera_input: the frame times of the calls, line 245, and
\* the two arrow keys of lines 275-281
FrameTimes == {Scale \div 2}
zoom_speed == 10
key_up(delta_time) == zoom(-(zoom_speed * delta_time))
key_down(delta_time) == zoom(zoom_speed * delta_time)

\* the position is shifted and the target is left where it was
ShiftPositionOnly(name, amount, by) ==
    /\ Called(name, amount)
    /\ position' = VAdd(position, by)
    /\ UNCHANGED <<target, distance, horizontal_angle, vertical_angle,
                   renderVars, traceVars, unitVars>>

\* the target is shifted and the position is left where it was
ShiftTargetOnly(name, amount, by) ==
    /\ Called(name, amount)
    /\ target' = VAdd(target, by)
    /\ UNCHANGED <<position, distance, horizontal_angle, vertical_angle,
                   renderVars, traceVars, unitVars>>

\* the free-fly moves shift the position and the target by the same vector
Shift(name, amount, by) ==
    /\ Called(name, amount)
    /\ position' = VAdd(position, by)
    /\ target' = VAdd(target, by)
    /\ UNCHANGED <<distance, horizontal_angle, vertical_angle, renderVars, traceVars, unitVars>>

\* lines 73-77
move_forward(amount) == Shift("move_forward", amount, VScale(get_forward, amount))

\* lines 79-83
move_backward(amount) ==
    Shift("move_backward", amount, VNeg(VScale(get_forward, amount)))

\* lines 85-89
strafe_left(amount) == Shift("strafe_left", amount, VNeg(VScale(get_right, amount)))

\* lines 91-95
strafe_right(amount) == Shift("strafe_right", amount, VScale(get_right, amount))

\* lines 98-102
move_up(amount) == Shift("move_up", amount, <<0, amount, 0>>)

\* lines 104-108
move_down(amount) == Shift("move_down", amount, <<0, -amount, 0>>)

\* -------------------------------------------------------------------- cube
\* cube.rs: lengths and ray parameters are in thousandths, so that the
\* epsilon 0.001 of the source is one unit.
Fine == 10 * Scale
epsilon == Fine \div 1000

\* f32 infinity and NaN, and the f32 operations that meet them
FInf == 2^29
FNaN == 2^30
IsInf(a) == a = FInf \/ a = -FInf
Recip(d) == IF d = 0 THEN FInf ELSE (Fine * Fine) \div d
FTimes(a, b) ==
    IF IsInf(b)
    THEN IF a = 0 THEN FNaN ELSE IF (a > 0) = (b > 0) THEN FInf ELSE -FInf
    ELSE (a * b) \div Fine
f32_min(a, b) == IF a = FNaN THEN b ELSE IF b = FNaN THEN a ELSE Min(a, b)
f32_max(a, b) == IF a = FNaN THEN b ELSE IF b = FNaN THEN a ELSE Max(a, b)
Lt(a, b) == a # FNaN /\ b # FNaN /\ a < b

\* Cube::new and the per-face overrides, which are public fields
Cube_new(position_, size, material_) ==
    [position |-> position_, size |-> size, material |-> material_,
     top_material |-> "None", side_material |-> "None", bottom_material |-> "None"]

\* lines 47-49
CubeMin(c) == VSub(c.position, <<c.size \div 2, c.size \div 2, c.size \div 2>>)
CubeMax(c) == VAdd(c.position, <<c.size \div 2, c.size \div 2, c.size \div 2>>)

\* lines 51-62: the two slab parameters of one axis
SlabLow(c, r, axis) == FTimes(CubeMin(c)[axis] - r.origin[axis], Recip(r.direction[axis]))
SlabHigh(c, r, axis) == FTimes(CubeMax(c)[axis] - r.origin[axis], Recip(r.direction[axis]))

\* lines 64-65
tmin(c, r) ==
    f32_max(f32_max(f32_min(SlabLow(c, r, 1), SlabHigh(c, r, 1)),
                    f32_min(SlabLow(c, r, 2), SlabHigh(c, r, 2))),
            f32_min(SlabLow(c, r, 3), SlabHigh(c, r, 3)))
tmax(c, r) ==
    f32_min(f32_min(f32_max(SlabLow(c, r, 1), SlabHigh(c, r, 1)),
                    f32_max(SlabLow(c, r, 2), SlabHigh(c, r, 2))),
            f32_max(SlabLow(c, r, 3), SlabHigh(c, r, 3)))

\* the near parameter is taken whatever its sign
choose_t_near(t_near, t_far) == t_near

\* line 71
choose_t(t_near, t_far) == IF Lt(epsilon, t_near) THEN t_near ELSE t_far

\* Ray::at
Ray_at(r, t) ==
    <<r.origin[1] + (r.direction[1] * t) \div Fine,
      r.origin[2] + (r.direction[2] * t) \div Fine,
      r.origin[3] + (r.direction[3] * t) \div Fine>>

\* lines 118-127
get_normal(point_, min, max) ==
    IF Abs(point_[1] - min[1]) < epsilon THEN <<-Fine, 0, 0>>
    ELSE IF Abs(point_[1] - max[1]) < epsilon THEN <<Fine, 0, 0>>
    ELSE IF Abs(point_[2] - min[2]) < epsilon THEN <<0, -Fine, 0>>
    ELSE IF Abs(point_[2] - max[2]) < epsilon THEN <<0, Fine, 0>>
    ELSE IF Abs(point_[3] - min[3]) < epsilon THEN <<0, 0, -Fine>>
    ELSE <<0, 0, Fine>>

\* the side material stands in for an unset top or bottom material
get_face_material_chain(c, normal) ==
    IF normal[2] > Fine \div 2 /\ c.top_material # "None" THEN c.top_material
    ELSE IF normal[2] < -(Fine \div 2) /\ c.bottom_material # "None" THEN c.bottom_material
    ELSE IF c.side_material # "None" THEN c.side_material
    ELSE c.material

\* lines 94-116
get_face_material(c, normal) ==
    IF normal[2] > Fine \div 2
    THEN IF c.top_material # "None" THEN c.top_material ELSE c.material
    ELSE IF normal[2] < -(Fine \div 2)
    THEN IF c.bottom_material # "None" THEN c.bottom_material ELSE c.material
    ELSE IF c.side_material # "None" THEN c.side_material ELSE c.material

\* lines 46-91, without the texture coordinates
Cube_intersect(c, r) ==
    IF Lt(tmax(c, r), 0) \/ Lt(tmax(c, r), tmin(c, r)) THEN None
    ELSE LET t == choose_t(tmin(c, r), tmax(c, r))
             hit_point == Ray_at(r, t)
             normal == get_normal(hit_point, CubeMin(c), CubeMax(c))
         IN  IF Lt(t, epsilon) THEN None
             ELSE Some([t |-> t, position |-> hit_point, normal |-> normal,
                        material |-> get_face_material(c, normal)])

\* the boxes, with every combination of set and unset overrides, and the rays
Overrides(name) == {"None", name}
Origins ==
    {<<x, y, z>> : x \in {-3 * Fine, -Fine - 2, -Fine - 1, -Fine, 0, Fine, 3 * Fine},
                   y \in {-3 * Fine, 0, 3 * Fine}, z \in {-3 * Fine, 0, 3 * Fine}}
Directions ==
    {<<Fine, 0, 0>>, <<-Fine, 0, 0>>, <<0, Fine, 0>>, <<0, -Fine, 0>>,
     <<0, 0, Fine>>, <<0, 0, -Fine>>, <<707, 707, 0>>, <<-707, 0, -707>>,
     <<577, -577, 577>>, <<0, -707, 707>>}

InitCubeCall ==
    /\ \E top \in Overrides("grass"), side \in Overrides("dirt"),
          bottom \in Overrides("clay") :
          cube = [Cube_new(<<0, 0, 0>>, 2 * Fine, "stone") EXCEPT
                     !.top_material = top, !.side_material = side,
                     !.bottom_material = bottom]
    /\ cray \in [origin : Origins, direction : Directions]
    /\ chit = None
    /\ cdone = FALSE

\* the call cube.intersect(&ray)
CubeIntersect ==
    /\ ~cdone
    /\ cdone' = TRUE
    /\ chit' = Cube_intersect(cube, cray)
    /\ UNCHANGED <<cube, cray, exceptCube>>

\* ------------------------------------------------------------- point light
\* point_light.rs, lines 24-42: the direction to the light and the colour
PointLight_illuminate(pl, pt) ==
    LET light_vec == VSub(pl.position, pt)
        dist == length(light_vec)
    IN  IF dist > pl.radius THEN <<<<0, 0, 0>>, Black>>
        ELSE <<normalize(light_vec),
               illuminate([color |-> pl.color, intensity |-> pl.intensity,
                           radius |-> pl.radius, distance |-> dist])>>

\* the lights and the points: at the light, within, at and beyond the radius
LightInputs ==
    [position : {<<0, 0, 0>>, <<Scale, 2 * Scale, 0>>},
     color : {<<100, 60, 20>>, <<100, 100, 100>>},
     intensity : {Scale, 2 * Scale},
     radius : {0, 3 * Scale, 5 * Scale}]
PointInputs ==
    {<<0, 0, 0>>, <<3 * Scale, 0, 0>>, <<0, 4 * Scale, 0>>, <<Scale, 2 * Scale, 0>>,
     <<6 * Scale, 0, 0>>, <<Scale, 2 * Scale, 5 * Scale>>, <<3 * Scale, 4 * Scale, 0>>}

InitLightCall ==
    /\ plight \in LightInputs
    /\ ppoint \in PointInputs
    /\ pillum = None

\* the call light.illuminate(&point)
Illuminate ==
    /\ pillum = None
    /\ pillum' = Some(PointLight_illuminate(plight, ppoint))
    /\ UNCHANGED <<plight, ppoint, exceptLight>>

\* ----------------------------------------------------------------- texture
\* texture.rs. Texture::new(width, height): width * height texels; texel i
\* is given the colour <<i, i, i>> so that reads can be told apart.
Texture_new(w, h) ==
    [width |-> w, height |-> h, data |-> [i \in 1 .. w * h |-> <<i - 1, i - 1, i - 1>>]]

\* f32 as usize: the fraction is dropped and a negative value gives 0
as_usize(x) == IF x <= 0 THEN 0 ELSE x \div Scale

\* the coordinate is not bounded by the size
texel_coord_unbounded(u, size) == as_usize(clamp(u, 0, Scale) * size)

\* lines 167-174: the column of u in a row of `size` texels (the row of v)
texel_coord(u, size) == Min(as_usize(clamp(u, 0, Scale) * size), size - 1)

\* lines 166-177: the texel read, or a panic on an index outside the data
Texture_sample(t, u, v) ==
    LET x == texel_coord(u, t.width)
        y == texel_coord(v, t.height)
        index == y * t.width + x
    IN  [x |-> x, y |-> y, index |-> index,
         panicked |-> index >= Len(t.data),
         color |-> IF index < Len(t.data) THEN t.data[index + 1] ELSE Black]

\* coordinates below 0, within [0, 1] and above 1
Coordinates == {-(Scale \div 2), 0, Scale \div 2 - 1, Scale \div 2, Scale - 1, Scale,
                2 * Scale + Scale \div 2}

InitTextureCall ==
    /\ \E w \in 1 .. MaxTexture, h \in 1 .. MaxTexture : tex = Texture_new(w, h)
    /\ uv \in Coordinates \X Coordinates
    /\ texel = None

\* the call texture.sample(u, v)
TextureSample ==
    /\ texel = None
    /\ texel' = Some(Texture_sample(tex, uv[1], uv[2]))
    /\ UNCHANGED <<tex, uv, exceptTexture>>

\* ---------------------------------------------------------------- material
\* material.rs. The arguments the builders are called with.
Albedos == {<<60, 60, 60>>, <<80, 90, 100>>}
Textures == {Texture_new(1, 1), Texture_new(2, 1)}
Reflectivities == {10, Scale}
Speculars == {<<30, 32 * Scale>>, <<80, 64 * Scale>>}
Emissives == {<<150, 80, 20>>, <<100, 100, 100>>}
Transparencies == {<<70, 150>>, <<Scale, 133>>}

\* Material::new(albedo)
InitMaterialCall ==
    /\ mat \in {Material_new(a) : a \in Albedos}
    /\ built = <<>>

\* `mat = mat.with_...(..)`: the builder takes the material and returns it
Built(name, arg, m) ==
    /\ Len(built) < MaxBuilds
    /\ mat' = m
    /\ built' = Append(built, [call |-> name, arg |-> arg])
    /\ UNCHANGED exceptMaterial

WithTexture == \E t \in Textures : Built("with_texture", t, with_texture(mat, t))
WithReflectivity ==
    \E r \in Reflectivities : Built("with_reflectivity", r, with_reflectivity(mat, r))
WithSpecular ==
    \E s \in Speculars : Built("with_specular", s, with_specular(mat, s[1], s[2]))
WithEmissive == \E e \in Emissives : Built("with_emissive", e, with_emissive(mat, e))
WithTransparency ==
    \E t \in Transparencies :
        Built("with_transparency", t, with_transparency(mat, t[1], t[2]))

\* ------------------------------------------------------------------- scene
\* minecraft.rs, Scene::intersect. What Cube::intersect and Mesh::intersect
\* report for the ray is given: None, or an intersection, of which the scan
\* reads t only; `of` names the primitive in place of the other fields.
HitTs == {Fine, 2 * Fine}
Reports(kind, i) == {None} \cup {Some([t |-> t, of |-> <<kind, i>>]) : t \in HitTs}
ReportsOf(kind, n) == {r \in [1 .. n -> UNION {Reports(kind, i) : i \in 1 .. n}] :
                          \A i \in 1 .. n : r[i] \in Reports(kind, i)}

\* lines 344-345
InitSceneCall ==
    /\ \E n \in 0 .. MaxCubes : cube_hits \in ReportsOf("cube", n)
    /\ \E n \in 0 .. MaxMeshes : mesh_hits \in ReportsOf("mesh", n)
    /\ closest = None
    /\ closest_t = FInf
    /\ scanned = 0
    /\ returned = FALSE

\* the later of two equally near hits is taken too
nearer_or_equal(t, than) == t <= than

\* lines 349, 358: intersection.t < closest_t
nearer(t, than) == Lt(t, than)

\* lines 348-353 and 357-362: one iteration of either loop
Consider(report) ==
    /\ IF IsSome(report) /\ nearer(Unwrap(report).t, closest_t)
       THEN /\ closest_t' = Unwrap(report).t
            /\ closest' = report
       ELSE UNCHANGED <<closest, closest_t>>
    /\ scanned' = scanned + 1
    /\ UNCHANGED <<cube_hits, mesh_hits, returned, exceptScan>>

\* lines 347-354
ScanCube ==
    /\ scanned < Len(cube_hits)
    /\ Consider(cube_hits[scanned + 1])

\* lines 356-363
ScanMesh ==
    /\ scanned >= Len(cube_hits)
    /\ scanned < Len(cube_hits) + Len(mesh_hits)
    /\ Consider(mesh_hits[scanned - Len(cube_hits) + 1])

\* line 365
ScanReturn ==
    /\ scanned = Len(cube_hits) + Len(mesh_hits)
    /\ ~returned
    /\ returned' = TRUE
    /\ UNCHANGED <<cube_hits, mesh_hits, closest, closest_t, scanned, exceptScan>>

\* --------------------------------------------------------------- refraction
\* trace_ray, lines 254-256, on its own: the dot product of the ray direction
\* and the normal, also of vectors that are not unit, and a material.
Dots == {25 * k - 2 * Scale : k \in 0 .. 16}
RefractiveIndices == {Scale \div 2, Scale - 1, Scale, Scale + 1, 133, 150, 250, 10 * Scale}
TransparencyLevels == {0, Scale \div 2, Scale}

InitRefractCall ==
    /\ incident \in [dot : Dots,
                     material : {with_transparency(Material_new(Black), t, n) :
                                    t \in TransparencyLevels, n \in RefractiveIndices}]
    /\ refraction = None

\* `if material.transparency > 0.0 { .. if let Some(refract_dir) = .. {`
RefractTest ==
    /\ refraction = None
    /\ LET material == incident.material
           some == refract_is_some(incident.dot, eta_of(material))
       IN  refraction' = Some([some |-> some,
                               cast |-> material.transparency > 0 /\ some])
    /\ UNCHANGED <<incident, exceptRefract>>

\* ------------------------------------------------------------ lighting
\* the nearest hit of the shadow ray toward the sun, and the distance of the
\* point light with the nearest hit of its shadow ray
SunShadowTs == {NoShadow, 1, 250, 1000 * Scale}
LightDistances == {Scale, 3 * Scale}
PointShadowTs == {NoShadow, 50, Scale, Scale + 1, 3 * Scale, 1000 * Scale}
Situations ==
    [day_time : {0, 90}, sun_intensity : {120}, ndotl : {-20, Scale}, nh : {90},
     sun_shadow_t : SunShadowTs,
     point_lights : {<<[color |-> <<100, 60, 20>>, intensity |-> 200, radius |-> 500,
                        distance |-> d, ndotl |-> 80, nh |-> Scale, shadow_t |-> t]>> :
                     d \in LightDistances, t \in PointShadowTs}]
LitMaterials == {MaterialOf(Matte), MaterialOf(Mirror)}

\* trace_ray at line 150: the hit and its material are known
InitShadeCall ==
    /\ shade_in \in [l : Situations, m : LitMaterials]
    /\ shade_out = None

\* trace_ray, lines 161-222
ShadeHit ==
    /\ shade_out = None
    /\ shade_out' = Some([sun |-> SunTerms(shade_in.l, shade_in.m),
                          points |-> PointLightSums(shade_in.m, shade_in.l.point_lights,
                                                    <<Black, Black>>)])
    /\ UNCHANGED <<shade_in, exceptShade>>

\* --------------------------------------------------------------- main loop
\* main.rs, lines 51-53
FPS_CHECK_INTERVAL == Scale \div 2
LOW_FPS_THRESHOLD == 20
HIGH_FPS_THRESHOLD == 45

\* the keys that are pressed or down in a frame, the value of get_fps and
\* the value of get_frame_time
KeySets ==
    {{}, {"ONE"}, {"TWO"}, {"THREE"}, {"P"}, {"T"}, {"N"}, {"UP"}, {"ONE", "P"},
     {"THREE", "P"}}
FpsValues == {10, 60}
FrameDurations == {Scale \div 4}

\* minecraft.rs, line 26: the sun of Scene::new
Scene_new_sun ==
    [direction |-> normalize(<<-Scale, -Scale, -(Scale \div 2)>>), intensity |-> 120]

\* minecraft.rs, lines 328-341: the sun for a time of day
update_sun_position(t) ==
    LET angle == Mul(Mul(t, Pi), 2 * Scale)
        sun_dir == normalize(<<-Sin(angle), -Max(Cos(angle) + Scale \div 2, 30),
                               -(Scale \div 2)>>)
        sun_height == Max(Cos(angle) + Scale \div 2, 0)
        intensity == Max(Min(Mul(sun_height, 120), 120), 30)
    IN  [direction |-> sun_dir, intensity |-> intensity]

\* lines 131-135
render_scale_of(level) == CASE level = 0 -> 4 [] level = 1 -> 2 [] OTHER -> 1

\* lines 72-91: the keys 1, 2, 3 and P, on the three locals
quality_key(keys, key, level, q) ==
    IF key \in keys
    THEN [q EXCEPT !.manual = level, !.quality = IF ~q.auto THEN level ELSE @]
    ELSE q
toggle_auto(keys, q) ==
    IF "P" \in keys
    THEN [q EXCEPT !.auto = ~q.auto, !.quality = IF q.auto THEN q.manual ELSE @]
    ELSE q
quality_keys(keys, q) ==
    toggle_auto(keys, quality_key(keys, "THREE", 2,
                          quality_key(keys, "TWO", 1, quality_key(keys, "ONE", 0, q))))

\* lines 106-109: push, and drop the oldest value beyond ten
push_fps(history, fps) ==
    LET pushed == Append(history, fps)
    IN  IF Len(pushed) > 10 THEN Tail(pushed) ELSE pushed

RECURSIVE Sum(_)
Sum(seq) == IF seq = <<>> THEN 0 ELSE Head(seq) + Sum(Tail(seq))

\* the level is raised without its upper limit
adjust_quality_unbounded(level, manual, avg_fps) ==
    IF avg_fps < LOW_FPS_THRESHOLD THEN level + 1
    ELSE IF avg_fps > HIGH_FPS_THRESHOLD /\ level > 0
    THEN IF level > manual THEN level - 1 ELSE level
    ELSE level

\* lines 116-125
adjust_quality(level, manual, avg_fps) ==
    IF avg_fps < LOW_FPS_THRESHOLD /\ level < 2 THEN level + 1
    ELSE IF avg_fps > HIGH_FPS_THRESHOLD /\ level > 0
    THEN IF level > manual THEN level - 1 ELSE level
    ELSE level

\* main.rs, lines 276-278 and camera.rs, lines 66-68: the UP arrow
zoomed(keys, d, delta_time) ==
    IF "UP" \in keys THEN Min(Max(d - (-(zoom_speed * delta_time)), Scale), 50 * Scale)
    ELSE d

\* the update of the sun is left out of the loop body
after_input_render == "render"

\* line 129 follows the input and quality code
after_input == "sun"

\* lines 32-46: the state before the first frame
InitMainLoop ==
    /\ quality_level = 1 /\ manual_quality_level = 1 /\ auto_quality = FALSE
    /\ use_threading = TRUE
    /\ main_day_time = 0
    /\ fps_history = <<>> /\ fps_check_timer = 0
    /\ scene_sun = Scene_new_sun
    /\ cam_distance = length(VSub(<<0, 5 * Scale, 15 * Scale>>, <<0, 0, 0>>))
    /\ mpc = "input" /\ frame = 0
    /\ check = None /\ scale_arg = 0 /\ snapshot = None /\ reads = <<>>

\* lines 64-127: the camera keys, the quality keys, T, N and the automatic
\* adjustment of one frame
FrameInput(keys, current_fps, delta_time) ==
    /\ mpc = "input"
    /\ frame < MaxFrames
    /\ LET q == quality_keys(keys, [quality |-> quality_level,
                                    manual |-> manual_quality_level,
                                    auto |-> auto_quality])
           timer == fps_check_timer + delta_time
           history == push_fps(fps_history, current_fps)
           checks == timer >= FPS_CHECK_INTERVAL /\ Len(history) >= 5
           avg_fps == Sum(history) \div Len(history)
       IN  /\ manual_quality_level' = q.manual
           /\ auto_quality' = q.auto
           /\ cam_distance' = zoomed(keys, cam_distance, delta_time)
           /\ use_threading' = IF "T" \in keys THEN ~use_threading ELSE use_threading
           /\ main_day_time' = IF "N" \in keys THEN (main_day_time + 1) % Scale
                               ELSE main_day_time
           /\ IF q.auto
              THEN /\ fps_history' = history
                   /\ IF checks
                      THEN /\ fps_check_timer' = 0
                           /\ quality_level' = adjust_quality(q.quality, q.manual, avg_fps)
                           /\ check' = Some([avg_fps |-> avg_fps, before |-> q.quality,
                                             after |-> quality_level'])
                      ELSE /\ fps_check_timer' = timer
                           /\ quality_level' = q.quality
                           /\ check' = None
              ELSE /\ quality_level' = q.quality
                   /\ check' = None
                   /\ UNCHANGED <<fps_history, fps_check_timer>>
    /\ mpc' = after_input
    /\ UNCHANGED <<scene_sun, frame, scale_arg, snapshot, reads, exceptMain>>

\* line 129
UpdateSun ==
    /\ mpc = "sun"
    /\ scene_sun' = update_sun_position(main_day_time)
    /\ mpc' = "render"
    /\ UNCHANGED <<quality_level, manual_quality_level, auto_quality, use_threading,
                   main_day_time, fps_history, fps_check_timer, cam_distance, frame, check,
                   scale_arg, snapshot, reads, exceptMain>>

\* lines 131-146 and renderer.rs, lines 77-79: render_scene is called; the
\* threaded mode clones the scene and copies the camera for the workers
RenderStart ==
    /\ mpc = "render"
    /\ scale_arg' = render_scale_of(quality_level)
    /\ snapshot' = IF use_threading
                   THEN Some([sun |-> scene_sun, distance |-> cam_distance])
                   ELSE None
    /\ reads' = <<>>
    /\ mpc' = "rendering"
    /\ UNCHANGED <<quality_level, manual_quality_level, auto_quality, use_threading,
                   main_day_time, fps_history, fps_check_timer, scene_sun, cam_distance,
                   frame, check, exceptMain>>

\* trace_ray and camera.get_ray read the scene and the camera: the clone in
\* a worker, the caller's own in single-threaded mode
RenderRead ==
    /\ mpc = "rendering"
    /\ Len(reads) < 2
    /\ reads' = Append(reads, IF use_threading THEN Unwrap(snapshot)
                              ELSE [sun |-> scene_sun, distance |-> cam_distance])
    /\ UNCHANGED <<quality_level, manual_quality_level, auto_quality, use_threading,
                   main_day_time, fps_history, fps_check_timer, scene_sun, cam_distance,
                   mpc, frame, check, scale_arg, snapshot, exceptMain>>

\* render_scene returns; the frame is drawn and the loop starts over
RenderEnd ==
    /\ mpc = "rendering"
    /\ Len(reads) = 2
    /\ snapshot' = None
    /\ mpc' = "input"
    /\ frame' = frame + 1
    /\ UNCHANGED <<quality_level, manual_quality_level, auto_quality, use_threading,
                   main_day_time, fps_history, fps_check_timer, scene_sun, cam_distance,
                   check, scale_arg, reads, exceptMain>>

\* --------------------------------------------------------- specifications
\* no render_scene call is in progress
IdleRender ==
    /\ width = 1 /\ height = 1 /\ render_scale = 1 /\ bad = -1
    /\ bufS = [i \in {0} |-> Unwritten] /\ posS = 0 /\ pcS = "idle"
    /\ writtenS = <<>> /\ writtenT = <<>>
    /\ bufT = [i \in {0} |-> Unwritten] /\ pcT = "idle" /\ thread_id = 0
    /\ wstate = [t \in Threads |-> "unspawned"]
    /\ wpos = [t \in Threads |-> 0]
    /\ local_pixels = [t \in Threads |-> <<>>]

\* no trace_ray call is in progress
IdleTrace ==
    /\ hit = [r \in Rays |-> NoHit] /\ dn = 0 /\ lighting = 1
    /\ stack = <<>> /\ ret = NoReturn /\ steps = 0 /\ queries = 0

\* no box is being intersected
IdleCube ==
    /\ cube = Cube_new(<<0, 0, 0>>, 0, "None")
    /\ cray = [origin |-> <<0, 0, 0>>, direction |-> <<0, 0, 0>>]
    /\ chit = None
    /\ cdone = FALSE

\* no light is being asked
IdleLight ==
    /\ plight = [position |-> <<0, 0, 0>>, color |-> Black, intensity |-> 0, radius |-> 0]
    /\ ppoint = <<0, 0, 0>>
    /\ pillum = None

\* no texture is being sampled
IdleTexture ==
    /\ tex = Texture_new(1, 1)
    /\ uv = <<0, 0>>
    /\ texel = None

\* no material is being built
IdleMaterial ==
    /\ mat = Material_new(Black)
    /\ built = <<>>

\* no scene is being queried
IdleScan ==
    /\ cube_hits = <<>> /\ mesh_hits = <<>>
    /\ closest = None
    /\ closest_t = FInf
    /\ scanned = 0
    /\ returned = FALSE

\* no refraction is being tested
IdleRefract ==
    /\ incident = [dot |-> 0, material |-> Material_new(Black)]
    /\ refraction = None

\* the main loop is not running
IdleMain ==
    /\ quality_level = 1 /\ manual_quality_level = 1 /\ auto_quality = FALSE
    /\ use_threading = TRUE
    /\ main_day_time = 0
    /\ fps_history = <<>> /\ fps_check_timer = 0
    /\ scene_sun = [direction |-> <<0, 0, 0>>, intensity |-> 0]
    /\ cam_distance = 0
    /\ mpc = "idle" /\ frame = 0
    /\ check = None /\ scale_arg = 0 /\ snapshot = None /\ reads = <<>>

\* no hit is being lit
IdleShade ==
    /\ shade_in = <<>> /\ shade_out = <<>>

IdleUnits ==
    IdleCube /\ IdleLight /\ IdleTexture /\ IdleMaterial /\ IdleScan
    /\ IdleRefract /\ IdleMain /\ IdleShade

\* no Camera call has been made
IdleCamera ==
    /\ position = <<0, 0, 0>> /\ target = <<0, 0, 0>>
    /\ distance = 0 /\ horizontal_angle = 0 /\ vertical_angle = 0
    /\ fov = 0 /\ aspect = 0
    /\ last_call = "none" /\ ncalls = 0 /\ calls = <<>>

Init == InitRender /\ IdleTrace /\ IdleCamera /\ IdleUnits

Next ==
    \/ SingleStep
    \/ SinglePanic
    \/ SingleReturn
    \/ Spawn
    \/ SpawnDone
    \/ \E t \in Threads : WorkerStep(t)
    \/ \E t \in Threads : WorkerPanic(t)
    \/ \E t \in Threads : WorkerReturn(t)
    \/ JoinOk
    \/ JoinErr
    \/ ThreadedReturn

Spec == Init /\ [][Next]_vars

NextTrace ==
    \/ TraceDepthBound
    \/ TraceMiss
    \/ TraceEmissive
    \/ TraceShade
    \/ TraceReflectCall
    \/ TraceReflectSkip
    \/ TraceReflectBlend
    \/ TraceRefractCall
    \/ TraceRefractSkip
    \/ TraceRefractBlend
    \/ TraceReturn

InitTraceRay == InitTrace /\ IdleRender /\ IdleCamera /\ IdleUnits
SpecTrace == InitTraceRay /\ [][NextTrace]_vars

NextCamera ==
    \/ \E angle_delta \in AngleDeltas : rotate_around_target(angle_delta)
    \/ \E angle_delta \in AngleDeltas : rotate_vertical(angle_delta)
    \/ \E delta \in ZoomDeltas : zoom(delta)
    \/ \E amount \in Amounts : move_forward(amount)
    \/ \E amount \in Amounts : move_backward(amount)
    \/ \E amount \in Amounts : strafe_left(amount)
    \/ \E amount \in Amounts : strafe_right(amount)
    \/ \E amount \in Amounts : move_up(amount)
    \/ \E amount \in Amounts : move_down(amount)
    \/ \E delta_time \in FrameTimes : key_up(delta_time)
    \/ \E delta_time \in FrameTimes : key_down(delta_time)

InitCamera == Camera_new /\ IdleRender /\ IdleTrace /\ IdleUnits
SpecCamera == InitCamera /\ [][NextCamera]_vars

NextCube == CubeIntersect
InitCube ==
    InitCubeCall /\ IdleRender /\ IdleTrace /\ IdleCamera /\ IdleLight /\ IdleTexture
    /\ IdleMaterial /\ IdleScan
    /\ IdleRefract
    /\ IdleMain
    /\ IdleShade
SpecCube == InitCube /\ [][NextCube]_vars

NextLight == Illuminate
InitLight ==
    InitLightCall /\ IdleRender /\ IdleTrace /\ IdleCamera /\ IdleCube /\ IdleTexture
    /\ IdleMaterial /\ IdleScan
    /\ IdleRefract
    /\ IdleMain
    /\ IdleShade
SpecLight == InitLight /\ [][NextLight]_vars

NextTexture == TextureSample
InitTexture ==
    InitTextureCall /\ IdleRender /\ IdleTrace /\ IdleCamera /\ IdleCube /\ IdleLight
    /\ IdleMaterial /\ IdleScan
    /\ IdleRefract
    /\ IdleMain
    /\ IdleShade
SpecTexture == InitTexture /\ [][NextTexture]_vars

NextMaterial ==
    \/ WithTexture
    \/ WithReflectivity
    \/ WithSpecular
    \/ WithEmissive
    \/ WithTransparency
InitMaterial ==
    InitMaterialCall /\ IdleRender /\ IdleTrace /\ IdleCamera /\ IdleCube /\ IdleLight
    /\ IdleTexture /\ IdleScan
    /\ IdleRefract
    /\ IdleMain
    /\ IdleShade
SpecMaterial == InitMaterial /\ [][NextMaterial]_vars

NextScene ==
    \/ ScanCube
    \/ ScanMesh
    \/ ScanReturn
InitScene ==
    InitSceneCall /\ IdleRender /\ IdleTrace /\ IdleCamera /\ IdleCube /\ IdleLight
    /\ IdleTexture /\ IdleMaterial
    /\ IdleRefract
    /\ IdleMain
    /\ IdleShade
SpecScene == InitScene /\ [][NextScene]_vars

NextRefract == RefractTest
InitRefract ==
    InitRefractCall /\ IdleRender /\ IdleTrace /\ IdleCamera /\ IdleCube /\ IdleLight
    /\ IdleTexture /\ IdleMaterial /\ IdleScan
    /\ IdleMain
    /\ IdleShade
SpecRefract == InitRefract /\ [][NextRefract]_vars

NextMain ==
    \/ \E keys \in KeySets, current_fps \in FpsValues, delta_time \in FrameDurations :
          FrameInput(keys, current_fps, delta_time)
    \/ UpdateSun
    \/ RenderStart
    \/ RenderRead
    \/ RenderEnd
InitMain ==
    InitMainLoop /\ IdleRender /\ IdleTrace /\ IdleCamera /\ IdleCube /\ IdleLight
    /\ IdleTexture /\ IdleMaterial /\ IdleScan /\ IdleRefract
    /\ IdleShade
SpecMain == InitMain /\ [][NextMain]_vars

NextShade == ShadeHit
InitShade ==
    InitShadeCall /\ IdleRender /\ IdleTrace /\ IdleCamera /\ IdleCube /\ IdleLight
    /\ IdleTexture /\ IdleMaterial /\ IdleScan /\ IdleRefract /\ IdleMain
SpecShade == InitShade /\ [][NextShade]_vars

\* ------------------------------------------------- claims on render_scene
NoPanic == \A t \in Threads : wstate[t] # "panicked"
Indices(pixels) == {pixels[k][1] : k \in 1 .. Len(pixels)}
BandRows(t) == Max(end_row(t) - start_row(t), 0)
RowsOf(t) == {r \in 0 .. (scaled_height - 1) : start_row(t) <= r /\ r < end_row(t)}
\* what pixel idx must hold once written: the colour traced for the
\* downscaled pixel (x div scale, y div scale)
Expected(idx) ==
    to_raylib(PrimaryColor((idx % width) \div render_scale,
                           (idx \div width) \div render_scale))

\* C1: when the single-threaded call and the threaded call on the same
\* inputs have both returned, their output buffers are equal, whatever the
\* interleaving of the workers was.
C1_ThreadedEqualsSingle ==
    (pcS = "returned" /\ pcT = "returned") => bufS = bufT

C1_Witness ==
    /\ pcS = "returned" /\ pcT = "returned"
    /\ scaled_height >= 2 /\ render_scale >= 2
    /\ \E i \in DOMAIN bufT : bufT[i] # Unwritten

\* C2: the buffer indices held in the lists of two different bands never
\* overlap, and no index of a list not yet committed has been written by an
\* earlier commit: every commit writes fresh pixels, so the final content
\* does not depend on the order of the commits.
C2_BandsDisjoint ==
    /\ \A t1, t2 \in Threads :
          t1 # t2 => Indices(local_pixels[t1]) \cap Indices(local_pixels[t2]) = {}
    /\ \A t \in Threads :
          \A i \in Indices(local_pixels[t]) : bufT[i] = Unwritten

C2_Witness ==
    /\ Cardinality({t \in Threads : wstate[t] = "finished" /\ local_pixels[t] # <<>>}) >= 2
    /\ pcT = "join" /\ thread_id >= 1
    /\ \E i \in DOMAIN bufT : bufT[i] # Unwritten

\* C3: once the threaded call has returned, every worker has terminated and
\* no worker's list is left uncommitted.
C3_JoinedBeforeReturn ==
    pcT = "returned" =>
        \A t \in Threads :
            /\ wstate[t] \in {"finished", "panicked"}
            /\ local_pixels[t] = <<>>

C3_Witness ==
    /\ pcT = "returned"
    /\ \E t \in Threads : wstate[t] = "finished" /\ wpos[t] > 0

\* C4: a threaded call in which a worker panicked does not return normally.
C4_PanicFailsFrame == pcT = "returned" => NoPanic

\* C5: the shared buffer changes only in a commit step of the main thread,
\* for a worker that has finished, and only at the indices of that worker's
\* list; a step of a worker changes nothing but that worker's own state.
C5_CommitAfterCompletion ==
    [][ /\ bufT' # bufT =>
            /\ pcT = "join"
            /\ thread_id' = thread_id + 1
            /\ wstate[thread_id] = "finished"
            /\ \A i \in DOMAIN bufT :
                  bufT'[i] # bufT[i] =>
                      \E k \in 1 .. Len(local_pixels[thread_id]) :
                          local_pixels[thread_id][k] = <<i, bufT'[i]>>
        /\ \A t \in Threads :
              wpos'[t] # wpos[t] =>
                  /\ bufT' = bufT
                  /\ \A u \in Threads \ {t} : local_pixels'[u] = local_pixels[u]
      ]_vars

C5_Witness ==
    /\ pcT = "join"
    /\ \E i \in DOMAIN bufT : bufT[i] # Unwritten
    /\ \E t \in Threads : wstate[t] = "running" /\ wpos[t] > 0

\* C6 as stated: all four bands contain the same number of rows.
C6_EqualBands ==
    pcT # "spawn" => \A t1, t2 \in Threads : BandRows(t1) = BandRows(t2)

\* C6 amended: the four bands are pairwise disjoint and together cover rows
\* 0 .. scaled_height-1; each holds at most ceil(scaled_height / 4) rows, a
\* band is short only when no row is left for the bands after it, and all
\* four hold the same number of rows exactly when 4 divides scaled_height.
C6_BandsPartition ==
    pcT # "spawn" =>
        /\ \A t1, t2 \in Threads : t1 # t2 => RowsOf(t1) \cap RowsOf(t2) = {}
        /\ UNION {RowsOf(t) : t \in Threads} = 0 .. (scaled_height - 1)
        /\ \A t \in Threads : BandRows(t) = Cardinality(RowsOf(t))
        /\ \A t \in Threads : BandRows(t) <= rows_per_thread
        /\ rows_per_thread * num_threads >= scaled_height
        /\ (rows_per_thread - 1) * num_threads < scaled_height \/ scaled_height = 0
        /\ \A t \in Threads :
              BandRows(t) < rows_per_thread =>
                  \A u \in Threads : u > t => BandRows(u) = 0
        /\ (\A t1, t2 \in Threads : BandRows(t1) = BandRows(t2))
              <=> scaled_height % num_threads = 0

C6_Witness ==
    /\ pcT = "join"
    /\ scaled_height % num_threads # 0
    /\ \E t \in Threads : BandRows(t) = 0
    /\ \E t \in Threads : BandRows(t) > 0

\* C7: every pixel a call has written holds the colour traced for the
\* downscaled pixel (x div scale, y div scale), and a call that returns
\* without a panic has traced each downscaled pixel once.
C7_BlockReplication ==
    /\ \A i \in DOMAIN bufS : bufS[i] # Unwritten => bufS[i] = Expected(i)
    /\ \A i \in DOMAIN bufT : bufT[i] # Unwritten => bufT[i] = Expected(i)
    /\ pcS = "returned" => posS = scaled_width * scaled_height
    /\ (pcT = "returned" /\ NoPanic) =>
          /\ \A t \in Threads : wpos[t] = BandPixels(t)
          /\ wpos[0] + wpos[1] + wpos[2] + wpos[3] = scaled_width * scaled_height

C7_Witness ==
    /\ pcS = "returned" /\ pcT = "returned" /\ NoPanic
    /\ render_scale >= 2 /\ scaled_width >= 1 /\ scaled_height >= 2
    /\ \E i \in DOMAIN bufT :
          /\ bufT[i] # Unwritten
          /\ (i % width) % render_scale # 0
          /\ (i \div width) % render_scale # 0
          /\ bufS[i] = bufT[i]

\* --------------------------------------------------- claims on trace_ray
InRange(c) == \A i \in 1 .. 3 : 0 <= c[i] /\ c[i] <= Scale

\* every call takes at most six steps, at most 2^MAX_DEPTH - 1 calls are
\* above the bound and at most 2^MAX_DEPTH at it
StepBound == 6 * (2^MAX_DEPTH - 1) + 2^MAX_DEPTH

\* an unfinished call can take a step
Progress ==
    \/ stack = <<>>
    \/ DepthBoundGuard \/ MissGuard \/ EmissiveGuard \/ ShadeGuard
    \/ ReflectCallGuard \/ ReflectSkipGuard \/ ReflectBlendGuard
    \/ RefractCallGuard \/ RefractSkipGuard \/ RefractBlendGuard
    \/ ReturnGuard

\* the depth of a frame is the number of calls below it, never above
\* MAX_DEPTH, and a frame at the bound never gets past its entry; the run
\* is never stuck and never longer than StepBound steps
DepthInv ==
    /\ \A i \in 1 .. Len(stack) :
          /\ stack[i].depth = i - 1
          /\ stack[i].depth <= MAX_DEPTH
          /\ stack[i].depth >= MAX_DEPTH => stack[i].pc = "entry"
    /\ Progress
    /\ steps <= StepBound

\* a call pushes one frame, one level deeper, and a frame at the bound
\* returns black at once, without a query of the scene or the sky
DepthStep ==
    /\ Len(stack') <= Len(stack) + 1
    /\ Len(stack') = Len(stack) + 1 =>
          stack'[Len(stack')].depth = stack[Len(stack)].depth + 1
    /\ (stack # <<>> /\ stack[Len(stack)].depth >= MAX_DEPTH) =>
          /\ stack' = SubSeq(stack, 1, Len(stack) - 1)
          /\ ret'.color = Black
          /\ ret'.via = "depth"
          /\ queries' = queries

\* C8: trace_ray terminates for every scene, cyclic ones included: each
\* recursive call is one level deeper than its caller, no call is deeper
\* than MAX_DEPTH = 8, a call at depth 8 returns black without looking at
\* what its ray would hit, and every run ends within StepBound steps.
C8_DepthBoundedTermination == []DepthInv /\ [][DepthStep]_vars

\* two or more mirrors facing each other: the call at the bound is on the stack
C8_Witness ==
    /\ \A r \in Rays : hit[r] = Mirror
    /\ Len(stack) = MAX_DEPTH + 1
    /\ stack[Len(stack)].depth = MAX_DEPTH

\* C9 as stated: every colour trace_ray returns, on every path, has its
\* three components within [0, 1].
C9_AllReturnsInRange == ret.via # "none" => InRange(ret.color)

\* C9 amended: the colours returned on the ordinary-hit, sky and depth-bound
\* paths are within [0, 1]; on the emissive path the emissive colour of the
\* material is returned as it is, unclamped.
C9_ClampedExceptEmissive ==
    /\ ret.via \in {"hit", "sky", "depth"} => InRange(ret.color)
    /\ ret.via = "emissive" => ret.color = MaterialOf(hit[ret.ray]).emissive

C9_Witness ==
    /\ ret.via = "hit"
    /\ ret.depth >= 1
    /\ \E i \in 1 .. 3 : ret.color[i] = Scale
    /\ \E i \in 1 .. 3 : ret.color[i] < Scale

\* ----------------------------------------------------------- camera claims
OrbitalCalls == {"rotate_around_target", "rotate_vertical", "zoom"}

\* C10: after a call of rotate_around_target, rotate_vertical or zoom the
\* position of the camera is its target plus the orbital offset given by
\* its distance, horizontal angle and vertical angle, whatever was called
\* before.
C10_OrbitAfterOrbitalCall ==
    last_call \in OrbitalCalls =>
        position = VAdd(target,
                        orbital_offset(distance, horizontal_angle, vertical_angle))

\* an orbital call after free-fly moves have taken the target off the ground
C10_Witness ==
    /\ last_call \in OrbitalCalls
    /\ ncalls >= 2
    /\ target[2] # 0
    /\ position # orbital_offset(distance, horizontal_angle, vertical_angle)

FreeFlyCalls ==
    {"move_forward", "move_backward", "strafe_left", "strafe_right", "move_up",
     "move_down"}
LastCall == calls[Len(calls)]

\* C11: each free-movement call adds one and the same vector to the position
\* and to the target, and leaves the orbital distance, the two orbital
\* angles, fov and aspect as they were.
C11_FreeFlyTranslates ==
    [][last_call' \in FreeFlyCalls /\ ncalls' = ncalls + 1 =>
          /\ VSub(position', position) = VSub(target', target)
          /\ UNCHANGED <<distance, horizontal_angle, vertical_angle, fov, aspect>>]_vars

\* a free-fly move that did move the camera
C11_Witness ==
    /\ last_call \in FreeFlyCalls
    /\ position # LastCall.position
    /\ target # LastCall.target

\* a call of rotate_around_target(0), or of zoom(0), made right after a
\* free-fly move that started from a camera in orbit
AfterMoveThenNull ==
    /\ Len(calls) >= 2
    /\ LastCall.call \in {"rotate_around_target", "zoom"}
    /\ LastCall.arg = 0
    /\ calls[Len(calls) - 1].call \in FreeFlyCalls
    /\ calls[Len(calls) - 1].in_orbit
    /\ calls[Len(calls) - 1].position # LastCall.position

\* C12 as stated: from a camera whose orbital fields match position - target,
\* a free-fly move followed by rotate_around_target(0) or zoom(0) changes
\* the position.
C12_MoveThenOrbitSnaps == AfterMoveThenNull => position # LastCall.position

\* C12 amended: a free-fly move takes the target along with the position, so
\* the orbital fields still match position - target, and a following
\* rotate_around_target(0) or zoom(0) stores the position the camera
\* already has.
C12_MoveThenOrbitKeepsPosition ==
    /\ (last_call \in FreeFlyCalls /\ LastCall.in_orbit) => InOrbit
    /\ AfterMoveThenNull => position = LastCall.position

C12_Witness == AfterMoveThenNull /\ LastCall.call = "rotate_around_target"

\* C13: after a rotate_vertical call the vertical angle is within
\* [-1.5, 1.5] and after a zoom call the distance is within [1, 50],
\* whatever the delta and the calls before.
C13_ClampedAngleAndDistance ==
    /\ last_call = "rotate_vertical" =>
          -((3 * Scale) \div 2) <= vertical_angle /\ vertical_angle <= (3 * Scale) \div 2
    /\ last_call = "zoom" => Scale <= distance /\ distance <= 50 * Scale

\* a rotate_vertical call whose sum was below the lower bound
C13_Witness ==
    /\ last_call = "rotate_vertical"
    /\ vertical_angle = -((3 * Scale) \div 2)
    /\ LastCall.arg < 0

\* -------------------------------------------------------------- cube claims
CubeHit == Unwrap(chit)

\* C14: Cube.intersect returns no hit when t_far < 0 or t_near > t_far;
\* otherwise the t it returns is t_near when t_near is above 0.001 and t_far
\* when it is not, and no hit is returned when that t is below 0.001: every
\* hit has t >= 0.001 and t is one of the two slab parameters.
C14_SlabChoice ==
    cdone =>
        LET t_near == tmin(cube, cray)
            t_far == tmax(cube, cray)
            chosen == IF t_near # FNaN /\ t_near > epsilon THEN t_near ELSE t_far
        IN  /\ (t_far < 0 \/ t_near > t_far) => chit = None
            /\ ~(t_far < 0 \/ t_near > t_far) =>
                  IF chosen < epsilon THEN chit = None
                  ELSE IsSome(chit) /\ CubeHit.t = chosen
            /\ IsSome(chit) => CubeHit.t >= epsilon /\ CubeHit.t \in {t_near, t_far}

\* a ray that starts 0.001 before the box: t_near is not above 0.001 and the
\* hit is the far one
C14_Witness ==
    /\ IsSome(chit)
    /\ tmin(cube, cray) = epsilon
    /\ CubeHit.t = tmax(cube, cray)
    /\ CubeHit.t > epsilon

IsSet(override) == override # "None"
OnTop == CubeHit.normal[2] > Fine \div 2
OnBottom == CubeHit.normal[2] < -(Fine \div 2)

\* C20 as stated: the material of a box hit is the top material on a top
\* face when it is set, the bottom material on a bottom face when it is set,
\* otherwise the side material when it is set, otherwise the default
\* material of the box.
C20_FaceMaterialFallsToSide ==
    IsSome(chit) =>
        CubeHit.material =
            IF OnTop /\ IsSet(cube.top_material) THEN cube.top_material
            ELSE IF OnBottom /\ IsSet(cube.bottom_material) THEN cube.bottom_material
            ELSE IF IsSet(cube.side_material) THEN cube.side_material
            ELSE cube.material

\* C20 amended: each face looks at its own override only: the top material
\* on a top face, the bottom material on a bottom face, the side material
\* on a side face, each when it is set; the default material of the box in
\* every other case, so also on a top or bottom face whose override is
\* unset while the side material is set.
C20_FaceMaterialOwnOverride ==
    IsSome(chit) =>
        LET own == IF OnTop THEN cube.top_material
                   ELSE IF OnBottom THEN cube.bottom_material
                   ELSE cube.side_material
        IN  CubeHit.material = IF IsSet(own) THEN own ELSE cube.material

\* a top face without a top material on a box that has a side material
C20_Witness ==
    /\ IsSome(chit)
    /\ OnTop
    /\ ~IsSet(cube.top_material)
    /\ IsSet(cube.side_material)
    /\ CubeHit.material = cube.material

\* ------------------------------------------------------- point light claims
LightDistance == length(VSub(plight.position, ppoint))
LightResult == Unwrap(pillum)

Texel == Unwrap(texel)

\* C16: for every u and v, below 0 and above 1 included, and every texture
\* of width and height at least 1, the texel Texture.sample reads is within
\* the data: x <= width - 1, y <= height - 1, and the read does not panic.
C16_SampleWithinData ==
    IsSome(texel) =>
        /\ 0 <= Texel.x /\ Texel.x <= tex.width - 1
        /\ 0 <= Texel.y /\ Texel.y <= tex.height - 1
        /\ Texel.index < tex.width * tex.height
        /\ ~Texel.panicked
        /\ Texel.color = tex.data[Texel.y * tex.width + Texel.x + 1]

\* u = 1.0 and v above 1 on a texture of more than one texel: the last texel
C16_Witness ==
    /\ IsSome(texel)
    /\ uv[1] = Scale
    /\ uv[2] > Scale
    /\ tex.width > 1
    /\ Texel.index = tex.width * tex.height - 1

\* ---------------------------------------------------------- material claims
MaterialFields ==
    {"albedo", "texture", "reflectivity", "specular", "shininess", "emissive",
     "refractive_index", "transparency"}

\* the fields a builder is named after
OwnFields(name) ==
    CASE name = "with_texture"      -> {"texture"}
      [] name = "with_reflectivity" -> {"reflectivity"}
      [] name = "with_specular"     -> {"specular", "shininess"}
      [] name = "with_emissive"     -> {"emissive"}
      [] name = "with_transparency" -> {"transparency", "refractive_index"}

\* the values a builder call was given, field by field
Given(b) ==
    CASE b.call = "with_texture"      -> [texture |-> Some(b.arg)]
      [] b.call = "with_reflectivity" -> [reflectivity |-> b.arg]
      [] b.call = "with_specular"     -> [specular |-> b.arg[1], shininess |-> b.arg[2]]
      [] b.call = "with_emissive"     -> [emissive |-> b.arg]
      [] b.call = "with_transparency" ->
            [transparency |-> b.arg[1], refractive_index |-> b.arg[2]]

\* the material Material::new returns
MaterialDefaults ==
    built = <<>> =>
        /\ mat.reflectivity = 0
        /\ mat.specular = 0
        /\ mat.shininess = 32 * Scale
        /\ mat.emissive = <<0, 0, 0>>
        /\ mat.refractive_index = Scale
        /\ mat.transparency = 0
        /\ mat.texture = None
        /\ mat.albedo \in Albedos

\* a builder call sets its own fields to its arguments and no other field
BuilderFrame ==
    built' # built =>
        LET b == built'[Len(built')]
        IN  /\ \A f \in MaterialFields \ OwnFields(b.call) : mat'[f] = mat[f]
            /\ \A f \in OwnFields(b.call) : mat'[f] = Given(b)[f]

\* the builder call b made on the material m
Apply(m, b) ==
    CASE b.call = "with_texture"      -> with_texture(m, b.arg)
      [] b.call = "with_reflectivity" -> with_reflectivity(m, b.arg)
      [] b.call = "with_specular"     -> with_specular(m, b.arg[1], b.arg[2])
      [] b.call = "with_emissive"     -> with_emissive(m, b.arg)
      [] b.call = "with_transparency" -> with_transparency(m, b.arg[1], b.arg[2])

\* two calls of different builders give the material that the same two
\* calls give when made in the other order
BuildersCommute ==
    (Len(built) = 2 /\ built[1].call # built[2].call) =>
        mat = Apply(Apply(Material_new(mat.albedo), built[2]), built[1])

\* C17: Material::new sets reflectivity 0, specular 0, shininess 32, emissive
\* black, refractive index 1, transparency 0 and no texture; each with_*
\* builder changes only its own fields, so calls of different builders
\* commute.
C17_DefaultsAndIndependentBuilders ==
    /\ []MaterialDefaults
    /\ [][BuilderFrame]_vars
    /\ []BuildersCommute

\* with_reflectivity then with_specular: both values are in the material
C17_Witness ==
    /\ Len(built) = 2
    /\ built[1].call = "with_reflectivity"
    /\ built[2].call = "with_specular"
    /\ mat.reflectivity = Scale
    /\ mat.specular = 80

\* ------------------------------------------------------------- scene claims
\* every report in the order of the scan: boxes first, then meshes
ScanOrder == cube_hits \o mesh_hits
HitAt(i) == Unwrap(ScanOrder[i])

\* C19: Scene.intersect returns None exactly when no box and no mesh is hit;
\* otherwise it returns one of the reported intersections, whose t is at
\* most the t of every reported hit, and on equal t the one scanned first,
\* boxes before meshes.
C19_NearestFirstScanned ==
    returned =>
        /\ closest = None <=> \A i \in DOMAIN ScanOrder : ScanOrder[i] = None
        /\ IsSome(closest) =>
              \E i \in DOMAIN ScanOrder :
                  /\ ScanOrder[i] = closest
                  /\ \A j \in DOMAIN ScanOrder :
                        IsSome(ScanOrder[j]) =>
                            /\ Unwrap(closest).t <= HitAt(j).t
                            /\ HitAt(j).t = Unwrap(closest).t => i <= j

\* a mesh and the second box are hit at the same t, the first box not nearer
C19_Witness ==
    /\ returned
    /\ Len(cube_hits) = 2 /\ Len(mesh_hits) = 1
    /\ IsSome(cube_hits[2]) /\ IsSome(mesh_hits[1])
    /\ Unwrap(cube_hits[2]).t = Unwrap(mesh_hits[1]).t
    /\ Unwrap(cube_hits[2]).t = Fine
    /\ cube_hits[1] # None
    /\ closest = cube_hits[2]

\* ----------------------------------------------------------- Fresnel claims
\* the base reflectance of refractive index 1.5: ((1 - 1.5) / (1 + 1.5))^2
r0_crystal == PowInt(Div(Scale - 150, Scale + 150), 2)

\* --------------------------------------------------- emissive short-circuit
\* trace_ray has returned from a call, below the depth bound, on a ray that
\* hits the lamp
LampReturned == ret.via # "none" /\ ret.depth < MAX_DEPTH /\ hit[ret.ray] = Lamp

\* the call that finds the emissive material returns in its next step
EmissiveReturnsAtOnce ==
    (AtEntry /\ ~AtDepthBound(Top.depth) /\ hit[Top.ray] = Lamp) =>
        /\ stack' = Pop
        /\ ret'.via = "emissive"
        /\ ret'.ray = Top.ray /\ ret'.depth = Top.depth

\* the returned colour is the emissive colour, and the call has cast no
\* shadow ray, evaluated no light and made no recursive call
EmissiveBypassesLighting ==
    LampReturned =>
        /\ ret.via = "emissive"
        /\ ret.color = <<150, 80, 20>>
        /\ ret.shadow_rays = 0
        /\ ret.lights = 0
        /\ ret.reflect_calls = 0
        /\ ret.refract_calls = 0

\* C21: when the hit material's emissive colour is nonzero, trace_ray
\* returns that colour immediately: no shadow ray, no light evaluation, no
\* reflection or refraction call.
C21_EmissiveShortCircuit ==
    /\ []EmissiveBypassesLighting
    /\ [][EmissiveReturnsAtOnce]_vars

\* a reflected ray (depth 1) has hit the lamp in a scene with point lights
C21_Witness ==
    /\ LampReturned
    /\ ret.depth = 1
    /\ Len(L.point_lights) > 0
    /\ ret.color = MaterialOf(Lamp).emissive

\* trace_ray has returned the colour of a hit on the fully transparent surface
CrystalReturned == ret.via = "hit" /\ hit[ret.ray] = Crystal

\* C18: for a surface with transparency 1, refractive index 1.5 and
\* reflectivity 0, the share of the reflected ray's colour in the colour
\* trace_ray returns is the Fresnel value: 1 at grazing incidence
\* (cos theta = 0) and r0 = 0.04 head-on (cos theta = 1).
C18_ReflectedShareIsFresnel ==
    CrystalReturned =>
        /\ dn = 0 => ret.reflected = Scale
        /\ dn = -Scale => ret.reflected = r0_crystal

\* ---------------------------------------------------------- recursive calls
\* the material of the hit whose colour trace_ray has returned
Returned == MaterialOf(hit[ret.ray])

\* Vec3::refract finds no direction for the material m: total internal
\* reflection
TotalInternalReflection(m) ==
    m.transparency > 0 /\ ~RefractExists(eta_of(m))

\* a call that shaded a hit has made one reflection call exactly when the
\* material is reflective or transparent, and one refraction call exactly
\* when it is transparent and refract returned a direction
CallsAsMaterialAsks ==
    ret.via = "hit" =>
        /\ ret.reflect_calls =
              IF Returned.reflectivity > 0 \/ Returned.transparency > 0 THEN 1 ELSE 0
        /\ ret.refract_calls =
              IF Returned.transparency > 0 /\ ~TotalInternalReflection(Returned)
              THEN 1 ELSE 0
        /\ (Returned.reflectivity = 0 /\ Returned.transparency = 0) =>
              ret.reflect_calls + ret.refract_calls = 0

\* on total internal reflection the call goes on to its return with the
\* colour of the reflection blend and without a call
TotalReflectionKeepsColour ==
    (stack # <<>> /\ Top.pc = "refract" /\ TotalInternalReflection(HitMaterial(Top.ray))) =>
        /\ Len(stack') = Len(stack)
        /\ stack'[Len(stack')].pc = "done"
        /\ stack'[Len(stack')].color = Top.color
        /\ stack'[Len(stack')].refract_calls = 0

\* C22: on a non-emissive hit trace_ray makes a reflection call iff
\* reflectivity > 0 or transparency > 0 and a refraction call iff
\* transparency > 0 and refract returns a direction; with both 0 it makes no
\* recursive call; on total internal reflection no refraction ray is cast
\* and the colour stays as the reflection blend left it.
C22_RecursiveCallsIffAsked ==
    /\ []CallsAsMaterialAsks
    /\ [][TotalReflectionKeepsColour]_vars

\* total internal reflection on the primary ray: reflected, not refracted
C22_Witness ==
    /\ ret.via = "hit"
    /\ ret.depth = 0
    /\ hit[0] = Bubble
    /\ dn = -(Scale \div 2)
    /\ TotalInternalReflection(Returned)
    /\ ret.reflect_calls = 1
    /\ ret.refract_calls = 0

\* -------------------------------------------------------- refraction claims
Refraction == Unwrap(refraction)

\* C29: for a material with refractive_index >= 1, refract(normal,
\* 1 / refractive_index) never returns no value, so whenever transparency > 0
\* trace_ray casts the refraction ray: total internal reflection is
\* unreachable in trace_ray.
C29_NoTotalInternalReflection ==
    (IsSome(refraction) /\ incident.material.refractive_index >= Scale) =>
        /\ Refraction.some
        /\ incident.material.transparency > 0 => Refraction.cast

\* refractive index 1 at grazing incidence: sin_t2 is 1.0 exactly
C29_Witness ==
    /\ IsSome(refraction)
    /\ incident.material.refractive_index = Scale
    /\ incident.dot = 0
    /\ incident.material.transparency > 0
    /\ Refraction.cast

\* ------------------------------------------------------- invocation claims
\* the calls of trace_ray, for one primary ray, that can reach the scene query
MaxQueries == 2^MAX_DEPTH - 1

\* C30: the invocations of trace_ray caused by one primary ray that reach
\* the scene query number at most 2^8 - 1 = 255, for every scene and
\* material assignment: an invocation makes at most two recursive calls, at
\* depth + 1, and one at depth 8 returns at once.
C30_AtMost255Queries ==
    /\ queries <= MaxQueries
    /\ \A i \in 1 .. Len(stack) :
          /\ stack[i].reflect_calls <= 1
          /\ stack[i].refract_calls <= 1
          /\ stack[i].depth = i - 1

\* a scene of glass only: every invocation below the bound makes two calls
C30_Witness ==
    /\ stack = <<>>
    /\ queries = MaxQueries
    /\ ret.reflect_calls = 1
    /\ ret.refract_calls = 1

\* ------------------------------------------------------- write-set claims
\* pixel idx lies in the columns and rows that the downscaled image covers
Covered(idx) ==
    /\ idx % width < scaled_width * render_scale
    /\ idx \div width < scaled_height * render_scale

\* how often a call has assigned buffer[idx]
TimesWritten(written, idx) == Cardinality({k \in 1 .. Len(written) : written[k] = idx})

\* every assignment so far is inside the buffer, on a covered pixel, and the
\* first to that pixel
WritesWithin(written) ==
    \A k \in 1 .. Len(written) :
        /\ 0 <= written[k] /\ written[k] < width * height
        /\ Covered(written[k])
        /\ TimesWritten(written, written[k]) = 1

\* a call that has returned has assigned every covered pixel once, and the
\* other pixels hold what they held before the call
WritesComplete(written, buf) ==
    \A idx \in 0 .. (width * height - 1) :
        /\ TimesWritten(written, idx) = IF Covered(idx) THEN 1 ELSE 0
        /\ buf[idx] = Unwritten <=> ~Covered(idx)

\* C27: for any width, height >= 1 and render_scale >= 1 a render call in
\* either mode writes only indices in [0, width * height), writes each pixel
\* (x, y) with x < (width div scale) * scale and y < (height div scale) * scale
\* exactly once and no other pixel: the whole buffer when scale divides
\* width and height, and not the trailing columns and rows otherwise.
C27_WritesCoveredPixelsOnce ==
    /\ WritesWithin(writtenS)
    /\ WritesWithin(writtenT)
    /\ pcS = "returned" => WritesComplete(writtenS, bufS)
    /\ (pcT = "returned" /\ NoPanic) => WritesComplete(writtenT, bufT)
    /\ (pcT = "returned" /\ NoPanic /\ width % render_scale = 0
          /\ height % render_scale = 0) =>
              \A idx \in DOMAIN bufT : bufT[idx] # Unwritten

\* both calls have returned on a 2 x 3 image at scale 2: the third row is
\* not written
C27_Witness ==
    /\ pcS = "returned" /\ pcT = "returned" /\ NoPanic
    /\ width = 2 /\ height = 3 /\ render_scale = 2
    /\ Len(writtenS) = 4 /\ Len(writtenT) = 4
    /\ bufT[3] # Unwritten
    /\ bufT[4] = Unwritten /\ bufS[5] = Unwritten

\* ------------------------------------------------------------- key claims
\* C26: holding the UP arrow zooms in, the orbital distance to the target
\* does not increase, and holding the DOWN arrow zooms out, the distance
\* does not decrease, within the [1, 50] clamp.
C26_UpZoomsInDownZoomsOut ==
    [][ \A delta_time \in FrameTimes :
           /\ key_up(delta_time) => distance' <= distance
           /\ key_down(delta_time) => distance' >= distance ]_vars

\* ---------------------------------------------------------------- C28
\* the automatic check of the frame, if it made one
CheckMade == check # None
LastCheck == Unwrap(check)

\* C28: through any sequence of the keys 1, 2, 3 and P and of automatic FPS
\* checks, quality_level is 0, 1 or 2, and while the automatic mode is off
\* quality_level equals manual_quality_level
C28_QualityLevelInRange ==
    /\ quality_level \in {0, 1, 2}
    /\ ~auto_quality => quality_level = manual_quality_level

\* an automatic check found a low average at the highest level
C28_Witness ==
    /\ CheckMade
    /\ LastCheck.avg_fps < LOW_FPS_THRESHOLD
    /\ LastCheck.before = 2
    /\ quality_level = 2

\* ---------------------------------------------------------------- C25
\* C25: a check that finds the average FPS below 20 does not make the
\* downscale factor smaller, and a check that finds it above 45 does not
\* make it larger
C25_LowFpsLowersQuality ==
    CheckMade =>
        /\ LastCheck.avg_fps < LOW_FPS_THRESHOLD =>
               render_scale_of(LastCheck.after) >= render_scale_of(LastCheck.before)
        /\ LastCheck.avg_fps > HIGH_FPS_THRESHOLD =>
               render_scale_of(LastCheck.after) <= render_scale_of(LastCheck.before)

\* ---------------------------------------------------------------- C24
\* what the tracing reads from the caller's scene and camera
Live == [sun |-> scene_sun, distance |-> cam_distance]

\* while render_scene runs the sun is the one of the current time of day
SunIsCurrent == mpc = "rendering" => scene_sun = update_sun_position(main_day_time)

\* every read of the tracing finds the scene and camera of the start of the
\* call, and the workers' clone is equal to them
ReadsFindTheStart ==
    mpc = "rendering" =>
        /\ \A i \in 1..Len(reads) : reads[i] = Live
        /\ use_threading => snapshot = Some(Live)

\* no step taken during the call changes the scene or the camera
NotMutatedDuringRender ==
    mpc = "rendering" => scene_sun' = scene_sun /\ cam_distance' = cam_distance

\* C24: in every frame the sun is recomputed for the current day_time before
\* render_scene is called, and from the start to the end of the call the
\* scene and the camera the tracing reads are not changed; the threaded
\* workers read a clone taken at the start
C24_SunUpdatedBeforeRender ==
    [](SunIsCurrent /\ ReadsFindTheStart) /\ [][NotMutatedDuringRender]_vars

\* a threaded render of a later frame has read twice, after the time of day
\* and the camera distance were changed by keys
C24_Witness ==
    /\ mpc = "rendering" /\ Len(reads) = 2 /\ use_threading
    /\ frame > 0 /\ main_day_time > 1
    /\ scene_sun # update_sun_position(main_day_time - 1)
    /\ scene_sun # Scene_new_sun
    /\ cam_distance # length(VSub(<<0, 5 * Scale, 15 * Scale>>, <<0, 0, 0>>))

\* ---------------------------------------------------------------- C23
\* the hit has been lit
Lit == shade_out # None
TheLight == shade_in.l.point_lights[1]
\* the sums of the point light with nothing on its shadow ray
Unoccluded ==
    PointLightSums(shade_in.m, <<[TheLight EXCEPT !.shadow_t = NoShadow]>>, <<Black, Black>>)

\* C23: the sun's diffuse and specular terms are zero whenever its shadow
\* ray hits anything, at any distance; a point light is occluded only when
\* the nearest hit of its shadow ray has t strictly below the distance to
\* the light, and an obstruction at or beyond the light leaves its terms as
\* they are without obstruction
C23_SunAnyDistancePointNearer ==
    Lit =>
        /\ shade_in.l.sun_shadow_t # NoShadow => Unwrap(shade_out).sun = <<Black, Black>>
        /\ (TheLight.shadow_t # NoShadow /\ TheLight.shadow_t < TheLight.distance)
               => Unwrap(shade_out).points = <<Black, Black>>
        /\ (TheLight.shadow_t # NoShadow /\ TheLight.shadow_t >= TheLight.distance)
               => Unwrap(shade_out).points = Unoccluded

\* the sun is hidden by a far obstruction, and the light is reached with an
\* obstruction exactly at its distance
C23_Witness ==
    /\ Lit
    /\ shade_in.l.sun_shadow_t = 1000 * Scale /\ shade_in.l.ndotl > 0
    /\ TheLight.shadow_t = TheLight.distance
    /\ Unwrap(shade_out).points[1] # Black /\ Unwrap(shade_out).points[2] # Black

====
